---- MODULE Spec2Model ----
(***************************************************************************)
(* Topology creator of pyats.contrib (creators/topology.py): the discovery *)
(* loop of Topology._generate, the CDP/LLDP record merger, the graph       *)
(* builder and the merge of the result into the testbed yaml.              *)
(*                                                                         *)
(* Python strings are sequences of one-character strings, so that the      *)
(* regular expressions and the substring tests of the source are computed  *)
(* and not assumed.  Python's None is the string "None" where a string is  *)
(* expected, the empty sequence where a Python string is expected and      *)
(* NoAddr where an address is expected.                                    *)
(***************************************************************************)
EXTENDS Integers, Sequences, FiniteSets, TLC

\* ------------------------------------------------------------------ bounds
\* width of an address in bits (IPv4 has 32; the filter only compares prefixes)
AddrBits == 3
\* most CDP index entries in one device's report
MaxCdp == 1
\* most LLDP interface entries in one device's report
MaxLldp == 1
\* the round counter of the model stops counting here
RoundCap == 6
\* most characters of a neighbor name given to the Name Normalizer alone
MaxName == 3

\* ----------------------------------------------------------------- strings
Range(s) == {s[i] : i \in 1..Len(s)}

\* Python's `needle in hay` for two strings
IsSubstring(needle, hay) ==
    \E i \in 0..(Len(hay) - Len(needle)) : SubSeq(hay, i + 1, i + Len(needle)) = needle

Digits == {"0", "1", "2", "3", "4", "5", "6", "7", "8", "9"}
Letters == {"a", "b", "c", "d", "e", "f", "g", "h", "i", "j", "k", "l", "m", "n", "o", "p",
            "q", "r", "s", "t", "u", "v", "w", "x", "y", "z",
            "G", "E", "I", "O", "S", "X", "R", "N"}
\* the characters of the regular expression class [-\w]
WordChars == Letters \cup Digits \cup {"-", "_"}
\* the characters of the regular expression class \s
SpaceChars == {" ", "\t", "\n"}

\* str.lower() on one character
LowerChar(ch) ==
    CASE ch = "G" -> "g" [] ch = "E" -> "e" [] ch = "I" -> "i" [] ch = "O" -> "o"
      [] ch = "S" -> "s" [] ch = "X" -> "x" [] ch = "R" -> "r" [] ch = "N" -> "n"
      [] OTHER -> ch

Lower(s) == [i \in 1..Len(s) |-> LowerChar(s[i])]

\* str.split(): the maximal runs of non-space characters, in order
RECURSIVE SplitFrom(_, _, _, _)
SplitFrom(s, i, word, acc) ==
    IF i > Len(s) THEN (IF word = <<>> THEN acc ELSE Append(acc, word))
    ELSE IF s[i] \in SpaceChars
         THEN SplitFrom(s, i + 1, <<>>, IF word = <<>> THEN acc ELSE Append(acc, word))
         ELSE SplitFrom(s, i + 1, Append(word, s[i]), acc)

Split(s) == SplitFrom(s, 1, <<>>, <<>>)

\* ------------------------------------------------------- Name Normalizer
\* domain_filter = re.compile(r'^.*?(?P<hostname>[-\w]+)\s?'): the lazy .*?
\* stops at the first character of [-\w]; . does not match a newline, so a
\* newline before any such character means no match (0).
RECURSIVE HostnameStart(_, _)
HostnameStart(s, i) ==
    IF i > Len(s) THEN 0
    ELSE IF s[i] \in WordChars THEN i
    ELSE IF s[i] = "\n" THEN 0
    ELSE HostnameStart(s, i + 1)

\* the greedy [-\w]+ from position i: the last position of the run
RECURSIVE HostnameEnd(_, _)
HostnameEnd(s, i) ==
    IF i < Len(s) /\ s[i + 1] \in WordChars THEN HostnameEnd(s, i + 1) ELSE i

\* the filter with a hostname group that starts one character late
NormalizeLate(dest_host) ==
    LET b == HostnameStart(dest_host, 1)
    IN  IF b = 0 THEN dest_host ELSE SubSeq(dest_host, b + 1, HostnameEnd(dest_host, b))

\* filtered_name = domain_filter.match(dest_host);
\* if filtered_name: dest_host = filtered_name.groupdict()['hostname']
Normalize(dest_host) ==
    LET b == HostnameStart(dest_host, 1)
    IN  IF b = 0 THEN dest_host ELSE SubSeq(dest_host, b, HostnameEnd(dest_host, b))

\* ------------------------------------------------------- interface types
\* interface_filter = re.compile(r'.+?(?=\d)'): the shortest non-empty prefix
\* that is followed by a digit; 0 when there is none (match() returns None)
RECURSIVE TypeEnd(_, _)
TypeEnd(name, i) ==
    IF i >= Len(name) THEN 0
    ELSE IF name[i + 1] \in Digits /\ name[i] # "\n" THEN i
    ELSE IF name[i] = "\n" THEN 0
    ELSE TypeEnd(name, i + 1)

HasType(name) == TypeEnd(name, 1) # 0

\* type_name[0].lower()
InterfaceType(name) == Lower(SubSeq(name, 1, TypeEnd(name, 1)))

\* -------------------------------------------------------- Address Filter
NoAddr == -1

Pow2(n) == IF n <= 0 THEN 1 ELSE 2 ^ n

\* ipaddress.IPv4Address(ip) returns: the string is an IPv4 address.  An
\* address of a neighbor that is none (an IPv6 address, a MAC address, any
\* other text) is a number outside the range: NotIPv4Low comes first and
\* NotIPv4High last when a set that holds it is iterated
NotIPv4Low == -2

NotIPv4High == Pow2(AddrBits)

IsIPv4(ip) == ip \in 0..(Pow2(AddrBits) - 1)

\* ipaddress.IPv4Address(ip) in net, net = [base, plen], for an ip that parses
InNet(ip, net) ==
    (ip \div Pow2(AddrBits - net.plen)) = (net.base \div Pow2(AddrBits - net.plen))

\* the order in which Python iterates a set of addresses: fixed for a given
\* set, not specified by the language
RECURSIVE SetOrder(_)
SetOrder(S) ==
    IF S = {} THEN <<>>
    ELSE LET x == CHOOSE y \in S : \A z \in S : y <= z
         IN  <<x>> \o SetOrder(S \ {x})

\* for ip, net in product(ips, exclude_networks): if ... in net: stop = True; break
RECURSIVE ProductHit(_, _, _, _)
ProductHit(ips, nets, i, j) ==
    IF i > Len(ips) THEN FALSE
    ELSE IF j > Len(nets) THEN ProductHit(ips, nets, i + 1, 1)
    ELSE IF ~IsIPv4(ips[i]) THEN FALSE
    ELSE IF InNet(ips[i], nets[j]) THEN TRUE
    ELSE ProductHit(ips, nets, i, j + 1)

\* the same loop ends by the AddressValueError of ipaddress.IPv4Address(ip):
\* an address that does not parse is reached before any address in a network
RECURSIVE ProductRaises(_, _, _, _)
ProductRaises(ips, nets, i, j) ==
    IF i > Len(ips) THEN FALSE
    ELSE IF j > Len(nets) THEN ProductRaises(ips, nets, i + 1, 1)
    ELSE IF ~IsIPv4(ips[i]) THEN TRUE
    ELSE IF InNet(ips[i], nets[j]) THEN FALSE
    ELSE ProductRaises(ips, nets, i, j + 1)

\* the value of `stop` after the two loops of _process_cdp_information
CdpStopLastLoopOnly(int_set, mgmt_set, nets) ==
    ProductHit(SetOrder(mgmt_set), nets, 1, 1)

CdpStop(int_set, mgmt_set, nets) ==
    LET stop1 == ProductHit(SetOrder(int_set), nets, 1, 1)
    IN  IF ProductHit(SetOrder(mgmt_set), nets, 1, 1) THEN TRUE ELSE stop1

\* one of the two loops of _process_cdp_information raises; the second loop
\* runs whatever the first has found
CdpRaises(int_set, mgmt_set, nets) ==
    IF ProductRaises(SetOrder(int_set), nets, 1, 1) THEN TRUE
    ELSE ProductRaises(SetOrder(mgmt_set), nets, 1, 1)

\* the value of `stop` in _process_lldp_information; without an address or
\* without networks the check is not made
RECURSIVE NetHit(_, _, _)
NetHit(ip, nets, j) ==
    IF j > Len(nets) THEN FALSE
    ELSE IF InNet(ip, nets[j]) THEN TRUE
    ELSE NetHit(ip, nets, j + 1)

LldpStop(ip_address, nets) ==
    IF ip_address # NoAddr /\ nets # <<>> /\ IsIPv4(ip_address)
    THEN NetHit(ip_address, nets, 1)
    ELSE FALSE

\* the loop of _process_lldp_information raises at its first network
LldpRaises(ip_address, nets) ==
    ip_address # NoAddr /\ nets # <<>> /\ ~IsIPv4(ip_address)

\* ---------------------------------------------------------- OS Classifier
sIOS == <<"I", "O", "S">>
sXE == <<"X", "E">>
sXR == <<"X", "R">>
sNXOS == <<"N", "X", "-", "O", "S">>

\* get_os testing XR before XE
get_os_xr_first(system_string, platform_name) ==
    IF IsSubstring(sIOS, system_string) \/ IsSubstring(sIOS, platform_name)
    THEN IF IsSubstring(sXR, system_string) \/ IsSubstring(sXR, platform_name)
         THEN "iosxr"
         ELSE IF IsSubstring(sXE, system_string) \/ IsSubstring(sXE, platform_name)
              THEN "iosxe"
              ELSE "ios"
    ELSE IF IsSubstring(sNXOS, system_string) \/ IsSubstring(sNXOS, platform_name)
         THEN "nxos"
         ELSE "None"

\* get_os: the OS named by the two strings, "None" for Python's None
get_os(system_string, platform_name) ==
    IF IsSubstring(sIOS, system_string) \/ IsSubstring(sIOS, platform_name)
    THEN IF IsSubstring(sXE, system_string) \/ IsSubstring(sXE, platform_name)
         THEN "iosxe"
         ELSE IF IsSubstring(sXR, system_string) \/ IsSubstring(sXR, platform_name)
              THEN "iosxr"
              ELSE "ios"
    ELSE IF IsSubstring(sNXOS, system_string) \/ IsSubstring(sNXOS, platform_name)
         THEN "nxos"
         ELSE "None"

\* ------------------------------------------------------------------ state
VARIABLES
    only_links,                  \* self._only_links
    add_unconnected_interfaces,  \* self._add_unconnected_interfaces
    exclude_interfaces,          \* self._exclude_interfaces: the string as given
    exclude_networks,            \* exclude_networks: the list of parsed networks
    net,                         \* what each device of the network would report
    phys,                        \* the interfaces each device of the network has
    testbed,                     \* the graph: devices, their interfaces, the links
    testbed_yaml,                \* the configuration read from the testbed file
    proxy_set,                   \* the proxies the devices of the file use
    visited_devices,             \* dev_man.visited_devices
    device_list,                 \* the DiscoveredDeviceRecord accumulator
    dev_to_test,                 \* the frontier of the round, in testbed order
    fetched,                     \* the neighbor data pcall has collected so far
    conn_dict,                   \* the ConnectionRecord of the round (result)
    pc,                          \* where _generate stands
    rounds,                      \* rounds of the loop completed
    final_calls,                 \* the calls of the final pass: [ipv4, cleanup]
    neighbor_name,               \* a neighbor name given to domain_filter
    filtered                     \* the names domain_filter has made of it, in turn

vars == <<only_links, add_unconnected_interfaces, exclude_interfaces, exclude_networks,
          net, phys, testbed, testbed_yaml, proxy_set, visited_devices, device_list,
          dev_to_test, fetched, conn_dict, pc, rounds, final_calls, neighbor_name, filtered>>

\* --------------------------------------------------- Neighbor Record Merger
\* position of the record called `name` in an insertion-ordered dict, 0 if absent
IndexOfName(seq, name) ==
    IF \E i \in 1..Len(seq) : seq[i].name = name
    THEN CHOOSE i \in 1..Len(seq) : seq[i].name = name
    ELSE 0

Names(seq) == {seq[i].name : i \in 1..Len(seq)}

\* add_to_device_list taking the OS of every entry
add_to_device_list_last_os(dl, dest_host, dest_port, int_address, mgmt_address, os, discover_name) ==
    LET i == IndexOfName(dl, dest_host)
    IN  IF i = 0
        THEN Append(dl, [name |-> dest_host, ports |-> {dest_port}, ip |-> mgmt_address,
                         os |-> os,
                         finder |-> <<discover_name, int_address \ mgmt_address>>])
        ELSE [dl EXCEPT ![i].os = os,
                        ![i].ports = @ \cup {dest_port},
                        ![i].ip = @ \cup mgmt_address]

\* add_to_device_list without the union of the ports of a known device
add_to_device_list_keep_ports(dl, dest_host, dest_port, int_address, mgmt_address, os, discover_name) ==
    LET i == IndexOfName(dl, dest_host)
    IN  IF i = 0
        THEN Append(dl, [name |-> dest_host, ports |-> {dest_port}, ip |-> mgmt_address,
                         os |-> os,
                         finder |-> <<discover_name, int_address \ mgmt_address>>])
        ELSE [dl EXCEPT ![i].os = IF @ = "None" THEN os ELSE @,
                        ![i].ip = @ \cup mgmt_address]

add_to_device_list(dl, dest_host, dest_port, int_address, mgmt_address, os, discover_name) ==
    LET i == IndexOfName(dl, dest_host)
    IN  IF i = 0
        THEN Append(dl, [name |-> dest_host, ports |-> {dest_port}, ip |-> mgmt_address,
                         os |-> os,
                         finder |-> <<discover_name, int_address \ mgmt_address>>])
        ELSE [dl EXCEPT ![i].os = IF @ = "None" THEN os ELSE @,
                        ![i].ports = @ \cup {dest_port},
                        ![i].ip = @ \cup mgmt_address]

\* add_to_connection_dict without the test for an equal entry
add_to_connection_dict_append(cd, dest_host, dest_port, interface) ==
    LET new_entry == [dest_host |-> dest_host, dest_port |-> dest_port]
        i == IndexOfName(cd, interface)
    IN  IF i = 0
        THEN Append(cd, [name |-> interface, entries |-> <<new_entry>>])
        ELSE [cd EXCEPT ![i].entries = Append(@, new_entry)]

\* connection_dict: insertion-ordered, interface name -> list of entries
add_to_connection_dict(cd, dest_host, dest_port, interface) ==
    LET new_entry == [dest_host |-> dest_host, dest_port |-> dest_port]
        i == IndexOfName(cd, interface)
    IN  IF i = 0
        THEN Append(cd, [name |-> interface, entries |-> <<new_entry>>])
        ELSE IF \E k \in 1..Len(cd[i].entries) : cd[i].entries[k] = new_entry
             THEN cd
             ELSE [cd EXCEPT ![i].entries = Append(@, new_entry)]

\* dest_host of a CDP entry: system_name, else device_id, through domain_filter
CdpDestHost(connection) ==
    Normalize(IF connection.system_name # <<>> THEN connection.system_name
              ELSE connection.device_id)

\* interface in self._exclude_interfaces / dest_port in self._exclude_interfaces
InterfaceExcludedLocalOnly(interface, dest_port, excl) ==
    IsSubstring(interface, excl)

InterfaceExcluded(interface, dest_port, excl) ==
    IsSubstring(interface, excl) \/ IsSubstring(dest_port, excl)

\* whether the body of the loop of _process_cdp_information reaches its end
\* for this entry (no `continue`); tb_names are the keys of testbed.devices
CdpKept(connection, tb_names, links_only, excl, nets) ==
    /\ ~(links_only /\ CdpDestHost(connection) \notin tb_names)
    /\ ~InterfaceExcluded(connection.local_interface, connection.port_id, excl)
    /\ ~CdpStop(connection.interface_addresses, connection.management_addresses, nets)

\* the entry reaches the address loops and one of them raises
CdpEntryRaises(connection, tb_names, links_only, excl, nets) ==
    /\ ~(links_only /\ CdpDestHost(connection) \notin tb_names)
    /\ ~InterfaceExcluded(connection.local_interface, connection.port_id, excl)
    /\ CdpRaises(connection.interface_addresses, connection.management_addresses, nets)

\* one iteration of the loop of _process_cdp_information; acc = [dl, cd, err],
\* err: an exception has left the loop
ProcessCdpEntry(acc, connection, device_name, tb_names, links_only, excl, nets) ==
    IF acc.err THEN acc
    ELSE IF CdpEntryRaises(connection, tb_names, links_only, excl, nets)
    THEN [acc EXCEPT !.err = TRUE]
    ELSE IF ~CdpKept(connection, tb_names, links_only, excl, nets) THEN acc
    ELSE LET dest_host == CdpDestHost(connection)
             os == get_os(connection.software_version, connection.platform)
         IN  [dl |-> add_to_device_list(acc.dl, dest_host, connection.port_id,
                                        connection.interface_addresses,
                                        connection.management_addresses, os, device_name),
              cd |-> add_to_connection_dict(acc.cd, dest_host, connection.port_id,
                                            connection.local_interface),
              err |-> FALSE]

RECURSIVE ProcessCdp(_, _, _, _, _, _, _, _)
ProcessCdp(acc, index, k, device_name, tb_names, links_only, excl, nets) ==
    IF k > Len(index) THEN acc
    ELSE ProcessCdp(ProcessCdpEntry(acc, index[k], device_name, tb_names, links_only,
                                    excl, nets),
                    index, k + 1, device_name, tb_names, links_only, excl, nets)

\* ip_address = neighbor.get('management_address');
\* if ip_address is None: ip_address = neighbor.get('management_address_v4')
LldpAddress(neighbor) ==
    IF neighbor.management_address = NoAddr THEN neighbor.management_address_v4
    ELSE neighbor.management_address

\* the links-only test of _process_lldp_information is made on the name as
\* reported; domain_filter is applied after the filters
LldpKept(neighbor, tb_names, links_only, excl, nets) ==
    /\ ~(links_only /\ neighbor.dest_host \notin tb_names)
    /\ ~InterfaceExcluded(neighbor.interface, neighbor.dest_port, excl)
    /\ ~LldpStop(LldpAddress(neighbor), nets)

\* the neighbor reaches the address loop and the loop raises
LldpEntryRaises(neighbor, tb_names, links_only, excl, nets) ==
    /\ ~(links_only /\ neighbor.dest_host \notin tb_names)
    /\ ~InterfaceExcluded(neighbor.interface, neighbor.dest_port, excl)
    /\ LldpRaises(LldpAddress(neighbor), nets)

ProcessLldpEntry(acc, neighbor, device_name, tb_names, links_only, excl, nets) ==
    IF acc.err THEN acc
    ELSE IF LldpEntryRaises(neighbor, tb_names, links_only, excl, nets)
    THEN [acc EXCEPT !.err = TRUE]
    ELSE IF ~LldpKept(neighbor, tb_names, links_only, excl, nets) THEN acc
    ELSE LET dest_host == Normalize(neighbor.dest_host)
             os == get_os(neighbor.system_description, <<>>)
         IN  [dl |-> add_to_device_list(acc.dl, dest_host, neighbor.dest_port, {},
                                        {LldpAddress(neighbor)}, os, device_name),
              cd |-> add_to_connection_dict(acc.cd, dest_host, neighbor.dest_port,
                                            neighbor.interface),
              err |-> FALSE]

RECURSIVE ProcessLldp(_, _, _, _, _, _, _, _)
ProcessLldp(acc, entries, k, device_name, tb_names, links_only, excl, nets) ==
    IF k > Len(entries) THEN acc
    ELSE ProcessLldp(ProcessLldpEntry(acc, entries[k], device_name, tb_names, links_only,
                                      excl, nets),
                     entries, k + 1, device_name, tb_names, links_only, excl, nets)

\* Interface(name, type = type_name[0].lower()) with .device = the device:
\* the interface is added to the device, without link or address
NewInterface(name) == [type |-> InterfaceType(name), link |-> 0, ipv4 |-> NoAddr]

AddInterfaces(ifs, names) ==
    [n \in (DOMAIN ifs) \cup names |-> IF n \in DOMAIN ifs THEN ifs[n] ELSE NewInterface(n)]

\* the test of line 253 without the count of the entries
HasLldpIgnoringCount(lldp) == lldp.present

\* if result and result['total_entries'] != 0
HasLldp(lldp) == lldp.present /\ lldp.total_entries # 0

\* get_device_connections raising on a device without CDP and LLDP data
get_device_connections_needs_data(data, device_name, dl, ifs, tb_names, links_only, excl, nets) ==
    [dl |-> dl, cd |-> <<>>, ifs |-> ifs, err |-> data.cdp = <<>> /\ ~data.lldp.present]

\* get_device_connections: [dl, cd, ifs, err]; cd is the connection_dict it
\* returns, ifs the interfaces of the visited device afterwards, err whether
\* an address loop raised or type_name[0] raised on a name without a type
get_device_connections(data, device_name, dl, ifs, tb_names, links_only, excl, nets) ==
    LET a0 == [dl |-> dl, cd |-> <<>>, err |-> FALSE]
        a1 == IF data.cdp # <<>>
              THEN ProcessCdp(a0, data.cdp, 1, device_name, tb_names, links_only, excl, nets)
              ELSE a0
        a2 == IF ~a1.err /\ HasLldp(data.lldp)
              THEN ProcessLldp(a1, data.lldp.interfaces, 1, device_name, tb_names,
                               links_only, excl, nets)
              ELSE a1
        missing == Names(a2.cd) \ DOMAIN ifs
    IN  IF a2.err THEN [dl |-> a2.dl, cd |-> a2.cd, ifs |-> ifs, err |-> TRUE]
        ELSE [dl |-> a2.dl, cd |-> a2.cd,
              ifs |-> AddInterfaces(ifs, {n \in missing : HasType(n)}),
              err |-> \E n \in missing : ~HasType(n)]


\* ------------------------------------------------------------ Graph Builder
\* testbed = [order, dev, links, plists]: the names of testbed.devices in
\* insertion order; each Device (os, type, credentials, connections in insertion
\* order, interfaces by name); the Link objects in creation order, an Interface's
\* link being a position in links (0: None); the proxy lists that connections
\* refer to (a Python list is shared by everything that holds it).

\* proxy values of a connection
NoProxyKey == [kind |-> "absent", device |-> <<>>, ref |-> 0]
NoneProxy == [kind |-> "None", device |-> <<>>, ref |-> 0]
StrProxy(name) == [kind |-> "str", device |-> name, ref |-> 0]
ListProxy(i) == [kind |-> "list", device |-> <<>>, ref |-> i]

\* 'ssh {}'.format(conn_ip) and 'ssh {user}@{ip}'.format(user = user, ip = ...):
\* ips is what was formatted, one address (of "addr") or a set of them (of "set")
SshCommand(user, of, ips) == [user |-> user, of |-> of, ips |-> ips]

sSsh == <<"s", "s", "h">>
sFinderProxy == <<"f", "i", "n", "d", "e", "r", "_", "p", "r", "o", "x", "y">>
sDefaults == <<"d", "e", "f", "a", "u", "l", "t", "s">>

\* the order in which Python iterates a set of names: fixed for a given set
RECURSIVE NameOrder(_)
NameOrder(S) ==
    IF S = {} THEN <<>>
    ELSE LET x == CHOOSE y \in S : TRUE
         IN  <<x>> \o NameOrder(S \ {x})

Reverse(s) == [i \in 1..Len(s) |-> s[Len(s) + 1 - i]]

\* the order in which the addresses of a set are iterated, one of two
AddrOrder(S, rev) == IF rev THEN Reverse(SetOrder(S)) ELSE SetOrder(S)

\* write_proxy_chain: [proxy, plists], the value returned and the proxy lists
\* afterwards (the list of the finder's own connection is changed in place)
write_proxy_chain(finder_name, tb, credentials, ip) ==
    LET conns == tb.dev[finder_name].connections
        user == credentials.username
        cands == {k \in 1..Len(conns) : /\ conns[k].name # sDefaults
                                        /\ conns[k].protocol = "ssh"
                                        /\ conns[k].proxy.kind # "absent"}
        hop == [device |-> finder_name, command |-> SshCommand(user, "set", ip)]
    IN  IF cands = {} THEN [proxy |-> StrProxy(finder_name), plists |-> tb.plists]
        ELSE LET k == CHOOSE c \in cands : \A d \in cands : c <= d
                 new_proxy == conns[k].proxy
                 conn_ip == conns[k].ip
             IN  CASE new_proxy.kind = "None" ->
                        [proxy |-> StrProxy(finder_name), plists |-> tb.plists]
                   [] new_proxy.kind = "list" ->
                        [proxy |-> new_proxy,
                         plists |-> [tb.plists EXCEPT ![new_proxy.ref] =
                                        Append([@ EXCEPT ![Len(@)].command =
                                                    SshCommand(user, "addr", {conn_ip})],
                                               hop)]]
                   [] new_proxy.kind = "str" ->
                        [proxy |-> ListProxy(Len(tb.plists) + 1),
                         plists |-> Append(tb.plists,
                                       <<[device |-> new_proxy.device,
                                          command |-> SshCommand(<<>>, "addr", {conn_ip})],
                                         hop>>)]

\* for ip in device_list[new_dev]['ip']: for proxy in proxy_set:
\*     connections['ssh' + proxy] = {'protocol': 'ssh', 'ip': ip, 'proxy': proxy}
\* every key is written once per address, the last address stays
ProxyConnections(ips, proxies) ==
    IF ips = <<>> THEN <<>>
    ELSE [k \in 1..Len(proxies) |->
            [name |-> sSsh \o proxies[k], protocol |-> "ssh", ip |-> ips[Len(ips)],
             proxy |-> StrProxy(proxies[k])]]

\* one iteration of the loop of _write_devices_into_testbed; st = [tb, new,
\* ip, err]: the testbed, the new devices so far (new_devices), the local
\* variable ip ([bound, val]) and whether an exception was raised
WriteDevice(st, rec, proxies, add_unconnected, physical, rev) ==
    IF st.err THEN st
    ELSE IF rec.name \notin DOMAIN st.tb.dev
    THEN LET finder == rec.finder
             credentials == st.tb.dev[finder[1]].credentials
             ips == AddrOrder(rec.ip, rev)
             ip == IF ips = <<>> THEN st.ip ELSE [bound |-> TRUE, val |-> ips[Len(ips)]]
             conns1 == ProxyConnections(ips, proxies)
             chain == write_proxy_chain(finder[1], st.tb, credentials, finder[2])
             use_finder == finder[2] # {}
             conns2 == IF use_finder
                       THEN Append(conns1, [name |-> sFinderProxy, protocol |-> "ssh",
                                            ip |-> ip.val, proxy |-> chain.proxy])
                       ELSE conns1
             dev == [os |-> rec.os, type |-> "device", credentials |-> credentials,
                     connections |-> conns2,
                     interfaces |-> AddInterfaces(<<>>, {n \in rec.ports : HasType(n)})]
         IN  [tb |-> IF use_finder THEN [st.tb EXCEPT !.plists = chain.plists] ELSE st.tb,
              new |-> Append(st.new, [name |-> rec.name, dev |-> dev]),
              ip |-> ip,
              err |-> (use_finder /\ ~ip.bound) \/ (\E n \in rec.ports : ~HasType(n))]
    ELSE LET have == DOMAIN st.tb.dev[rec.name].interfaces
             wanted == IF add_unconnected THEN physical[rec.name] ELSE rec.ports
             missing == wanted \ have
         IN  [st EXCEPT !.tb.dev[rec.name].interfaces =
                            AddInterfaces(@, {n \in missing : HasType(n)}),
                        !.err = \E n \in missing : ~HasType(n)]

RECURSIVE WriteDevicesFrom(_, _, _, _, _, _, _)
WriteDevicesFrom(st, dl, k, proxies, add_unconnected, physical, rev) ==
    IF k > Len(dl) THEN st
    ELSE WriteDevicesFrom(WriteDevice(st, dl[k], proxies, add_unconnected, physical, rev),
                          dl, k + 1, proxies, add_unconnected, physical, rev)

\* _write_devices_into_testbed and then testbed.add_device of each new device
write_devices_into_testbed(dl, proxies, tb, add_unconnected, physical, rev) ==
    LET st == WriteDevicesFrom([tb |-> tb, new |-> <<>>,
                                ip |-> [bound |-> FALSE, val |-> NoAddr], err |-> FALSE],
                               dl, 1, NameOrder(proxies), add_unconnected, physical, rev)
        added == Names(st.new)
    IN  [tb |-> [st.tb EXCEPT
                    !.order = @ \o [i \in 1..Len(st.new) |-> st.new[i].name],
                    !.dev = [n \in (DOMAIN @) \cup added |->
                                IF n \in DOMAIN @ THEN @[n]
                                ELSE st.new[IndexOfName(st.new, n)].dev]],
         err |-> st.err]


\* testbed.links: the links that some interface of some device refers to
TestbedLinks(tb) ==
    (UNION {{tb.dev[d].interfaces[i].link : i \in DOMAIN tb.dev[d].interfaces} :
            d \in DOMAIN tb.dev}) \ {0}

HasInterface(tb, ref) ==
    ref[1] \in DOMAIN tb.dev /\ ref[2] \in DOMAIN tb.dev[ref[1]].interfaces

\* link.connect_interface(interface): the interface joins the link's list and
\* its link attribute becomes this link
ConnectInterface(tb, l, ref) ==
    [tb EXCEPT !.links[l].interfaces = Append(@, ref),
               !.dev[ref[1]].interfaces[ref[2]].link = l]

RECURSIVE ConnectAll(_, _, _, _)
ConnectAll(tb, l, refs, k) ==
    IF k > Len(refs) THEN tb
    ELSE ConnectAll(ConnectInterface(tb, l, refs[k]), l, refs, k + 1)

\* int_list of a new link: the interface, then the remote interfaces of the
\* entries that are not in the list yet
RECURSIVE IntList(_, _, _)
IntList(acc, entries, k) ==
    IF k > Len(entries) THEN acc
    ELSE LET ref == <<entries[k].dest_host, entries[k].dest_port>>
         IN  IntList(IF ref \in Range(acc) THEN acc ELSE Append(acc, ref), entries, k + 1)

\* the remote interfaces of the entries, in order, that are not members of
\* link l when their entry is reached
RECURSIVE ExtendLink(_, _, _, _)
ExtendLink(tb, l, entries, k) ==
    IF k > Len(entries) THEN tb
    ELSE LET ref == <<entries[k].dest_host, entries[k].dest_port>>
         IN  ExtendLink(IF ref \in Range(tb.links[l].interfaces) THEN tb
                        ELSE ConnectInterface(tb, l, ref),
                        l, entries, k + 1)

\* Link('Link_{num}'.format(num = len(testbed.links)), interfaces = int_list)
NewLink(tb, int_list) ==
    ConnectAll([tb EXCEPT !.links = Append(@, [name |-> <<"Link_", Cardinality(TestbedLinks(tb))>>,
                                               interfaces |-> <<>>])],
               Len(tb.links) + 1, int_list, 1)

\* the body of the loops of _write_connections_to_testbed for one interface
\* of one device; st = [tb, err], err: a lookup raised KeyError
WriteConnection(st, device, conn) ==
    IF st.err THEN st
    ELSE LET refs == {<<conn.entries[k].dest_host, conn.entries[k].dest_port>> :
                      k \in 1..Len(conn.entries)}
         IN  IF ~HasInterface(st.tb, <<device, conn.name>>)
                \/ \E r \in refs : ~HasInterface(st.tb, r)
             THEN [st EXCEPT !.err = TRUE]
             ELSE IF st.tb.dev[device].interfaces[conn.name].link = 0
                  THEN [st EXCEPT !.tb = NewLink(st.tb, IntList(<<<<device, conn.name>>>>,
                                                                conn.entries, 1))]
                  ELSE [st EXCEPT !.tb = ExtendLink(st.tb,
                                            st.tb.dev[device].interfaces[conn.name].link,
                                            conn.entries, 1)]

RECURSIVE WriteDeviceConnections(_, _, _, _)
WriteDeviceConnections(st, device, conns, k) ==
    IF k > Len(conns) THEN st
    ELSE WriteDeviceConnections(WriteConnection(st, device, conns[k]), device, conns, k + 1)

RECURSIVE WriteConnectionsFrom(_, _, _)
WriteConnectionsFrom(st, cdict, k) ==
    IF k > Len(cdict) THEN st
    ELSE WriteConnectionsFrom(WriteDeviceConnections(st, cdict[k].name, cdict[k].conns, 1),
                              cdict, k + 1)

\* _write_connections_to_testbed(connection_dict, testbed): [tb, err]
write_connections_to_testbed(cdict, tb) ==
    WriteConnectionsFrom([tb |-> tb, err |-> FALSE], cdict, 1)

\* ------------------------------------------------------- the testbed file
\* testbed_yaml = [order, devices, has_topology, topology]: the device
\* names in file order, the entry of each device, and under topology the
\* interface entries of each device.  An interface entry is [type, link, ipv4,
\* alias], a key the entry does not have being NoLink, NoAddr or the empty
\* string.  A proxy is written with its hops.
NoLink == <<"", 0>>

YamlProxy(tb, proxy) ==
    [kind |-> proxy.kind, device |-> proxy.device,
     hops |-> IF proxy.kind = "list" THEN tb.plists[proxy.ref] ELSE <<>>]

YamlConnection(tb, conn) ==
    [name |-> conn.name, protocol |-> conn.protocol, ip |-> conn.ip,
     proxy |-> YamlProxy(tb, conn.proxy)]

\* interface_dict['interfaces'] of one device: type, and link and ipv4 when
\* they are not None
YamlInterfaces(tb, d) ==
    [i \in DOMAIN tb.dev[d].interfaces |->
        LET f == tb.dev[d].interfaces[i]
        IN  [type |-> f.type,
             link |-> IF f.link = 0 THEN NoLink ELSE tb.links[f.link].name,
             ipv4 |-> f.ipv4,
             alias |-> <<>>]]

\* yaml_dict['devices'][device.name] of a device the file does not have
YamlDevice(tb, d, credential_dict, connect) ==
    [type |-> tb.dev[d].type, os |-> tb.dev[d].os, credentials |-> credential_dict,
     connections |-> [k \in 1..Len(tb.dev[d].connections) |->
                         YamlConnection(tb, tb.dev[d].connections[k])]
                     \o <<[name |-> sDefaults, via |-> connect]>>]

\* the local variable `connect` after the device loop has reached position k:
\* the name of the last connection of the last new device that has one
RECURSIVE ConnectAfter(_, _, _)
ConnectAfter(tb, yaml, k) ==
    IF k = 0 THEN [bound |-> FALSE, val |-> <<>>]
    ELSE LET d == tb.order[k]
             conns == tb.dev[d].connections
         IN  IF d \notin DOMAIN yaml.devices /\ conns # <<>>
             THEN [bound |-> TRUE, val |-> conns[Len(conns)].name]
             ELSE ConnectAfter(tb, yaml, k - 1)

\* testbed_yaml['topology'][device]['interfaces'].update(...): the entries of
\* the graph replace the entries of the file that have the same name
UpdateInterfaces(old, new) ==
    [i \in (DOMAIN old) \cup (DOMAIN new) |-> IF i \in DOMAIN new THEN new[i] ELSE old[i]]

\* devices of the file keep their entry, the others get the entry made for them
MergeDevices(tb, yaml, credential_dict) ==
    [d \in (DOMAIN yaml.devices) \cup (DOMAIN tb.dev) |->
        IF d \in DOMAIN yaml.devices THEN yaml.devices[d]
        ELSE YamlDevice(tb, d, credential_dict,
                        ConnectAfter(tb, yaml, IndexOfName([k \in 1..Len(tb.order) |->
                                                              [name |-> tb.order[k]]], d)).val)]

\* create_yaml_dict: [yaml, err]; err: `connect` was read before any
\* connection of a new device had bound it
create_yaml_dict(tb, yaml, credential_dict) ==
    LET added == {tb.order[k] : k \in 1..Len(tb.order)} \ DOMAIN yaml.devices
        unbound == \E k \in 1..Len(tb.order) :
                      /\ tb.order[k] \in added
                      /\ ~ConnectAfter(tb, yaml, k).bound
        topology == IF ~yaml.has_topology
                    THEN [d \in DOMAIN tb.dev |-> YamlInterfaces(tb, d)]
                    ELSE [d \in (DOMAIN yaml.topology) \cup (DOMAIN tb.dev) |->
                            IF d \notin DOMAIN yaml.topology THEN YamlInterfaces(tb, d)
                            ELSE IF d \notin DOMAIN tb.dev THEN yaml.topology[d]
                            ELSE UpdateInterfaces(yaml.topology[d], YamlInterfaces(tb, d))]
    IN  IF unbound THEN [yaml |-> yaml, err |-> TRUE]
        ELSE [yaml |-> [order |-> yaml.order \o SelectSeq(tb.order, LAMBDA d : d \in added),
                        devices |-> MergeDevices(tb, yaml, credential_dict),
                        has_topology |-> TRUE,
                        topology |-> topology],
              err |-> FALSE]

\* load(self._testbed_file): the graph the file describes.  Interfaces of the
\* file that name the same link share one Link object.
FileLinkNames(yaml) ==
    IF ~yaml.has_topology THEN {}
    ELSE (UNION {{yaml.topology[d][i].link : i \in DOMAIN yaml.topology[d]} :
                 d \in DOMAIN yaml.topology}) \ {NoLink}

FileLinkMembers(yaml, name) ==
    UNION {{<<d, i>> : i \in {j \in DOMAIN yaml.topology[d] : yaml.topology[d][j].link = name}} :
           d \in DOMAIN yaml.topology}

Load(yaml) ==
    LET link_names == NameOrder(FileLinkNames(yaml))
        LinkIndex(name) == CHOOSE l \in 1..Len(link_names) : link_names[l] = name
    IN  [order |-> yaml.order,
         dev |-> [d \in DOMAIN yaml.devices |->
                    [os |-> yaml.devices[d].os, type |-> yaml.devices[d].type,
                     credentials |-> yaml.devices[d].credentials,
                     connections |-> [k \in 1..Len(yaml.devices[d].connections) |->
                                        LET c == yaml.devices[d].connections[k]
                                        IN  [name |-> c.name, protocol |-> c.protocol,
                                             ip |-> c.ip,
                                             proxy |-> [kind |-> c.proxy.kind,
                                                        device |-> c.proxy.device,
                                                        ref |-> 0]]],
                     interfaces |->
                        IF yaml.has_topology /\ d \in DOMAIN yaml.topology
                        THEN [i \in DOMAIN yaml.topology[d] |->
                                LET e == yaml.topology[d][i]
                                IN  [type |-> e.type,
                                     link |-> IF e.link = NoLink THEN 0 ELSE LinkIndex(e.link),
                                     ipv4 |-> e.ipv4]]
                        ELSE <<>>]],
         links |-> [l \in 1..Len(link_names) |->
                      [name |-> link_names[l],
                       interfaces |-> NameOrder(FileLinkMembers(yaml, link_names[l]))]],
         plists |-> <<>>]

\* dev_man.get_credentials_and_proxies(testbed_yaml): the credentials and the
\* proxies that the connections of the file name
FileProxies(yaml) ==
    UNION {{yaml.devices[d].connections[k].proxy.device :
                k \in {j \in 1..Len(yaml.devices[d].connections) :
                          yaml.devices[d].connections[j].proxy.kind = "str"}} :
           d \in DOMAIN yaml.devices}

FileCredentials(yaml) == {yaml.devices[d].credentials : d \in DOMAIN yaml.devices}

\* ------------------------------------------------------------- the rounds
\* process_neigbor_data after pcall has returned: conn_dict[device] =
\* get_device_connections(...) for the frontier devices in order;
\* st = [dl, conn, tb, err]
RECURSIVE MergeFrom(_, _, _, _, _, _, _, _)
MergeFrom(st, devs, k, data, tb_names, links_only, excl, nets) ==
    IF k > Len(devs) \/ st.err THEN st
    ELSE LET d == devs[k]
             r == get_device_connections(data[d], d, st.dl, st.tb.dev[d].interfaces,
                                         tb_names, links_only, excl, nets)
         IN  MergeFrom([dl |-> r.dl,
                        conn |-> Append(st.conn, [name |-> d, conns |-> r.cd]),
                        tb |-> [st.tb EXCEPT !.dev[d].interfaces = r.ifs],
                        err |-> r.err],
                       devs, k + 1, data, tb_names, links_only, excl, nets)

MergeResults(dl, tb, devs, data, links_only, excl, nets) ==
    MergeFrom([dl |-> dl, conn |-> <<>>, tb |-> tb, err |-> FALSE], devs, 1, data,
              DOMAIN tb.dev, links_only, excl, nets)

\* while len(testbed.devices) > len(dev_man.visited_devices)
LoopGuardOrEqual(tb, visited) == Len(tb.order) >= Cardinality(visited)

LoopGuard(tb, visited) == Len(tb.order) > Cardinality(visited)

\* marking only the first device of the graph
MarkVisitedFirst(tb, visited) == visited \cup {tb.order[1]}

\* marking the devices under their names with a domain
MarkVisitedWithDomain(tb, visited) ==
    visited \cup {d \o <<".", "x">> : d \in Range(tb.order) \ visited}

\* the devices process_neigbor_data adds to dev_man.visited_devices
MarkVisited(tb, visited) == visited \cup Range(tb.order)

\* line 142 true, then the first loop of process_neigbor_data: the devices
\* not yet visited are marked visited and become the frontier
StartRound ==
    /\ pc = "loop"
    /\ LoopGuard(testbed, visited_devices)
    /\ dev_to_test' = SelectSeq(testbed.order, LAMBDA d : d \notin visited_devices)
    /\ visited_devices' = MarkVisited(testbed, visited_devices)
    /\ fetched' = <<>>
    /\ pc' = "fetch"
    /\ UNCHANGED <<final_calls, neighbor_name, filtered, only_links, add_unconnected_interfaces,
                   exclude_interfaces, exclude_networks, net, phys, testbed, testbed_yaml, proxy_set,
                   device_list, conn_dict, rounds>>

\* line 142 false
ExitLoop ==
    /\ pc = "loop"
    /\ ~LoopGuard(testbed, visited_devices)
    /\ pc' = "final"
    /\ UNCHANGED <<final_calls, neighbor_name, filtered, only_links, add_unconnected_interfaces,
                   exclude_interfaces, exclude_networks, net, phys, testbed, testbed_yaml, proxy_set,
                   visited_devices, device_list, dev_to_test, fetched, conn_dict, rounds>>

\* one call of dev_man.get_neighbor_info made by pcall returns
GetNeighborInfo(d) ==
    /\ pc = "fetch"
    /\ d \in Range(dev_to_test) \ DOMAIN fetched
    /\ fetched' = [n \in (DOMAIN fetched) \cup {d} |-> IF n = d THEN net[d] ELSE fetched[n]]
    /\ UNCHANGED <<final_calls, neighbor_name, filtered, only_links, add_unconnected_interfaces,
                   exclude_interfaces, exclude_networks, net, phys, testbed, testbed_yaml, proxy_set,
                   visited_devices, device_list, dev_to_test, conn_dict, pc, rounds>>

\* pcall returning with the first result
AnyReturned(devs, data) == DOMAIN data # {}

\* result = pcall(...): every call has returned
AllReturned(devs, data) == Range(devs) = DOMAIN data

\* for entry in result: for device in entry: the devices that have a result,
\* in the order of the calls
Results(devs, data) == SelectSeq(devs, LAMBDA d : d \in DOMAIN data)

\* pcall has every result: the rest of process_neigbor_data
ProcessNeighborData ==
    /\ pc = "fetch"
    /\ AllReturned(dev_to_test, fetched)
    /\ LET r == MergeResults(device_list, testbed, Results(dev_to_test, fetched), fetched,
                             only_links, exclude_interfaces, exclude_networks)
       IN  /\ device_list' = r.dl
           /\ conn_dict' = r.conn
           /\ testbed' = r.tb
           /\ pc' = IF r.err THEN "error" ELSE "write_devices"
    /\ UNCHANGED <<final_calls, neighbor_name, filtered, only_links, add_unconnected_interfaces,
                   exclude_interfaces, exclude_networks, net, phys, testbed_yaml, proxy_set,
                   visited_devices, dev_to_test, fetched, rounds>>

\* lines 157-162: _write_devices_into_testbed and testbed.add_device
WriteDevices ==
    /\ pc = "write_devices"
    /\ \E rev \in BOOLEAN :
         LET r == write_devices_into_testbed(device_list, proxy_set, testbed,
                                             add_unconnected_interfaces, phys, rev)
         IN  /\ testbed' = r.tb
             /\ pc' = IF r.err THEN "error" ELSE "write_connections"
    /\ UNCHANGED <<final_calls, neighbor_name, filtered, only_links, add_unconnected_interfaces,
                   exclude_interfaces, exclude_networks, net, phys, testbed_yaml, proxy_set,
                   visited_devices, device_list, dev_to_test, fetched, conn_dict, rounds>>

\* the end of a round without the break
AfterCommitLoop(links_only) == "loop"

\* if self._only_links: break
AfterCommit(links_only) == IF links_only THEN "final" ELSE "loop"

\* lines 165-168: _write_connections_to_testbed, then break or loop
WriteConnections ==
    /\ pc = "write_connections"
    /\ LET r == write_connections_to_testbed(conn_dict, testbed)
       IN  /\ testbed' = r.tb
           /\ pc' = IF r.err THEN "error" ELSE AfterCommit(only_links)
    /\ rounds' = IF rounds < RoundCap THEN rounds + 1 ELSE rounds
    /\ UNCHANGED <<final_calls, neighbor_name, filtered, only_links, add_unconnected_interfaces,
                   exclude_interfaces, exclude_networks, net, phys, testbed_yaml, proxy_set,
                   visited_devices, device_list, dev_to_test, fetched, conn_dict>>

\* no call of the final pass has been made
NoCalls == [ipv4 |-> <<>>, cleanup |-> <<>>]

\* dev_man.get_interfaces_ipV4_address(device): when it succeeds the address
\* found is written to the interfaces of the device, when it fails the device
\* is left as it is
ResolveDevice(tb, d, ok) ==
    IF ok
    THEN [tb EXCEPT !.dev[d].interfaces = [i \in DOMAIN @ |-> [@[i] EXCEPT !.ipv4 = 1]]]
    ELSE tb

\* the loop of lines 170-171 ending at the first call that fails
RECURSIVE ResolveUntilFailure(_, _, _, _)
ResolveUntilFailure(st, order, k, oks) ==
    IF k > Len(order) \/ (k > 1 /\ order[k - 1] \notin oks) THEN st
    ELSE ResolveUntilFailure(
             [tb |-> ResolveDevice(st.tb, order[k], order[k] \in oks),
              calls |-> Append(st.calls, [name |-> order[k], ok |-> order[k] \in oks])],
             order, k + 1, oks)

\* for device in testbed.devices.values():
\*     dev_man.get_interfaces_ipV4_address(device)
\* st = [tb, calls]; oks are the devices whose call succeeds
RECURSIVE ResolveAll(_, _, _, _)
ResolveAll(st, order, k, oks) ==
    IF k > Len(order) THEN st
    ELSE ResolveAll(
             [tb |-> ResolveDevice(st.tb, order[k], order[k] \in oks),
              calls |-> Append(st.calls, [name |-> order[k], ok |-> order[k] \in oks])],
             order, k + 1, oks)

\* lines 170-171: the IPv4 pass over every device of the graph
ResolveIPv4 ==
    /\ pc = "final"
    /\ \E oks \in SUBSET Range(testbed.order) :
         LET r == ResolveAll([tb |-> testbed, calls |-> <<>>], testbed.order, 1, oks)
         IN  /\ testbed' = r.tb
             /\ final_calls' = [final_calls EXCEPT !.ipv4 = r.calls]
    /\ pc' = "cleanup"
    /\ UNCHANGED <<neighbor_name, filtered, only_links, add_unconnected_interfaces,
                   exclude_interfaces, exclude_networks, net, phys, testbed_yaml, proxy_set,
                   visited_devices, device_list, dev_to_test, fetched, conn_dict, rounds>>

\* lines 174-176: pcall(dev_man.unconfigure_neighbor_discovery_protocols,
\*                      device = testbed.devices.values())
Unconfigure ==
    /\ pc = "cleanup"
    /\ final_calls' = [final_calls EXCEPT !.cleanup = testbed.order]
    /\ pc' = "yaml"
    /\ UNCHANGED <<neighbor_name, filtered, only_links, add_unconnected_interfaces,
                   exclude_interfaces, exclude_networks, net, phys, testbed, testbed_yaml,
                   proxy_set, visited_devices, device_list, dev_to_test, fetched, conn_dict,
                   rounds>>

\* line 177: create_yaml_dict(testbed, testbed_yaml, dev_man)
CreateYaml ==
    /\ pc = "yaml"
    /\ LET r == create_yaml_dict(testbed, testbed_yaml, FileCredentials(testbed_yaml))
       IN  /\ testbed_yaml' = r.yaml
           /\ pc' = IF r.err THEN "error" ELSE "done"
    /\ UNCHANGED <<final_calls, neighbor_name, filtered, only_links, add_unconnected_interfaces,
                   exclude_interfaces, exclude_networks, net, phys, testbed, proxy_set,
                   visited_devices, device_list, dev_to_test, fetched, conn_dict, rounds>>

\* ------------------------------------------------------------------ inputs
\* device names, as the file and the neighbors give them
nA == <<"a">>
nB == <<"b">>
nC == <<"c">>
nAx == <<"a", ".", "x">>
nBx == <<"b", ".", "x">>
nD == <<"d">>
nJump == <<"j">>
\* every name a device of the graph can have
Universe == {nA, nB, nC, nD, nAx}

\* interface names
G1 == <<"G", "1">>
G2 == <<"G", "2">>
G12 == <<"G", "1", "2">>

sEmpty == <<>>
sIosXe == <<"I", "O", "S", " ", "X", "E">>
sCli == <<"c", "l", "i">>
sEth == <<"e", "t", "h">>

\* one entry of result['index'] of the CDP parser
Cdp(name, local, port, mgmt, int, version) ==
    [system_name |-> sEmpty, device_id |-> name, local_interface |-> local,
     port_id |-> port, management_addresses |-> mgmt, interface_addresses |-> int,
     software_version |-> version, platform |-> sEmpty]

\* one neighbor of result['interfaces'] of the LLDP parser: the first key of
\* ...[interface]['port_id'][dest_port]['neighbors'] and its value
Lldp(local, port, name, mgmt, mgmt_v4, description) ==
    [interface |-> local, dest_port |-> port, dest_host |-> name,
     management_address |-> mgmt, management_address_v4 |-> mgmt_v4,
     system_description |-> description]

\* the subsequences of a table with at most max entries
RECURSIVE SubSeqs(_)
SubSeqs(table) ==
    IF table = <<>> THEN {<<>>}
    ELSE LET rest == SubSeqs(Tail(table))
         IN  rest \cup {<<Head(table)>> \o r : r \in rest}

SubSeqsUpTo(table, max) == {r \in SubSeqs(table) : Len(r) <= max}

\* what get_neighbor_info returns for a device: {'cdp': ..., 'lldp': ...}
Report(cdp, lldp) ==
    [cdp |-> cdp,
     lldp |-> [present |-> lldp # <<>>, total_entries |-> Len(lldp), interfaces |-> lldp]]

Reports(cdp_table, lldp_table) ==
    {Report(c, l) : c \in SubSeqsUpTo(cdp_table, MaxCdp),
                    l \in SubSeqsUpTo(lldp_table, MaxLldp)}

Silent == Report(<<>>, <<>>)

\* the entry of a device in the file
FileDevice(proxy) ==
    [os |-> "iosxe", type |-> "router", credentials |-> [username |-> <<"u">>],
     connections |-> <<[name |-> sCli, protocol |-> "ssh", ip |-> 0,
                        proxy |-> [kind |-> proxy.kind, device |-> proxy.device,
                                   hops |-> <<>>]]>>]

\* a file with these devices and no topology
File(order, proxies) ==
    [order |-> order,
     devices |-> [d \in Range(order) |-> FileDevice(proxies[d])],
     has_topology |-> FALSE,
     topology |-> <<>>]

NoProxies == [d \in Universe |-> NoProxyKey]

\* a file with devices a and b and a topology: a has G1 (with an alias when
\* alias is not empty), b has G1, on the link called link when it is not NoLink
FileWithTopology(alias, link, ipv4) ==
    [File(<<nA, nB>>, NoProxies) EXCEPT
        !.has_topology = TRUE,
        !.topology = [d \in {nA, nB} |->
                        IF d = nA
                        THEN (G1 :> [type |-> sEth, link |-> NoLink, ipv4 |-> ipv4,
                                     alias |-> alias])
                        ELSE (G1 :> [type |-> sEth, link |-> link, ipv4 |-> NoAddr,
                                     alias |-> sEmpty])]]

AllInterfaces == [d \in Universe |-> {G1, G2, G12}]

\* a start of the program: the arguments, the file and the network
Scenario(links, unconnected, excl_if, excl_net, yaml, network, physical) ==
    [only_links |-> links, add_unconnected_interfaces |-> unconnected,
     exclude_interfaces |-> excl_if, exclude_networks |-> excl_net,
     yaml |-> yaml, net |-> network, phys |-> physical]

\* the network of the topology scenarios: who reports whom on which interfaces
TopoCdp(d) ==
    CASE d \in {nA, nAx} -> <<Cdp(nBx, G1, G1, {1}, {2}, sIOS),
                              Cdp(nB, G2, G1, {1}, {2}, sIOS),
                              Cdp(nC, G1, G1, {3}, {4}, sEmpty)>>
      [] d = nB -> <<Cdp(nA, G1, G1, {5}, {6}, sIOS),
                     Cdp(nA, G2, G1, {5}, {6}, sIOS),
                     Cdp(nA, G2, G2, {5}, {6}, sIOS),
                     Cdp(nC, G2, G2, {3}, {4}, sNXOS)>>
      [] OTHER -> <<Cdp(nA, G1, G2, {5}, {6}, sIOS),
                    Cdp(nB, G2, G2, {1}, {2}, sNXOS)>>

TopoLldp(d) ==
    CASE d \in {nA, nAx} -> <<Lldp(G1, G1, nB, 1, NoAddr, sIOS)>>
      [] d = nB -> <<Lldp(G1, G1, nAx, 5, NoAddr, sIOS)>>
      [] OTHER -> <<>>

TopoNetworks ==
    {[d \in Universe |-> IF d = nA \/ d = nAx THEN ra ELSE IF d = nB THEN rb ELSE rc] :
        ra \in Reports(TopoCdp(nA), TopoLldp(nA)),
        rb \in Reports(TopoCdp(nB), TopoLldp(nB)),
        rc \in Reports(TopoCdp(nC), TopoLldp(nC))}

PhysicalChoices == {AllInterfaces, [d \in Universe |-> {G2}]}

TopoScenarios ==
    {Scenario(links, FALSE, sEmpty, <<>>, yaml, network, AllInterfaces) :
        links \in BOOLEAN,
        yaml \in {File(<<nA, nB>>, NoProxies), File(<<nAx, nB>>, NoProxies),
                  File(<<nA>>, NoProxies)},
        network \in TopoNetworks}

\* the scenarios of the filters: a reports c under excluded interfaces and
\* excluded networks
Net0 == [base |-> 0, plen |-> 1]
Net4 == [base |-> 4, plen |-> 2]

FilterCdp ==
    <<Cdp(nC, G1, G1, {6}, {7}, sIOS),
      Cdp(nC, G2, G2, {1}, {6}, sIOS),
      Cdp(nC, G1, G2, {6}, {5}, sIOS),
      Cdp(nC, G12, G1, {}, {}, sIOS)>>

FilterLldp ==
    <<Lldp(G2, G1, nC, 1, NoAddr, sIOS),
      Lldp(G1, G2, nC, NoAddr, 5, sIOS)>>

FilterScenarios ==
    {Scenario(FALSE, FALSE, excl_if, excl_net, File(<<nA, nB>>, NoProxies),
              [d \in Universe |-> IF d = nA THEN ra ELSE Silent], AllInterfaces) :
        excl_if \in {sEmpty, G1, G2 \o <<" ">> \o G12},
        excl_net \in {<<>>, <<Net0>>, <<Net0, Net4>>, <<Net4, Net0>>},
        ra \in Reports(FilterCdp, FilterLldp)}

\* the scenarios of the device records: a and b report the same new device c
\* with different addresses and descriptions, under zero, one or two proxies
AttrCdp(d) ==
    CASE d = nA -> <<Cdp(nC, G1, G1, {1, 2}, {3}, sIosXe),
                     Cdp(nC, G2, G2, {}, {3}, sEmpty),
                     Cdp(nC, G1, G2, {1}, {1}, sNXOS)>>
      [] d = nB -> <<Cdp(nC, G1, G1, {2}, {4}, sNXOS)>>
      [] OTHER -> <<Cdp(nB, G1, G1, {}, {}, sIOS)>>

AttrLldp(d) ==
    CASE d = nB -> <<Lldp(G2, G2, nC, NoAddr, NoAddr, sIOS)>>
      [] OTHER -> <<>>

AttrScenarios ==
    {Scenario(FALSE, FALSE, sEmpty, <<>>, File(<<nA, nB>>, proxies),
              [d \in Universe |-> IF d = nA THEN ra ELSE IF d = nB THEN rb ELSE rc],
              AllInterfaces) :
        proxies \in {NoProxies,
                     [NoProxies EXCEPT ![nA] = StrProxy(nJump)],
                     [NoProxies EXCEPT ![nA] = StrProxy(nJump), ![nB] = StrProxy(nA)]},
        ra \in Reports(AttrCdp(nA), AttrLldp(nA)),
        rb \in Reports(AttrCdp(nB), AttrLldp(nB)),
        rc \in Reports(AttrCdp(nC), AttrLldp(nC))}

\* the scenarios of the file: a and b are in the file with their interfaces
FileCdp(d) ==
    CASE d = nA -> <<Cdp(nB, G1, G1, {1}, {2}, sIOS), Cdp(nB, G2, G1, {1}, {2}, sIOS)>>
      [] OTHER -> <<Cdp(nA, G1, G1, {5}, {6}, sIOS), Cdp(nA, G2, G12, {5}, {6}, sIOS)>>

FileScenarios ==
    {Scenario(links, unconnected, sEmpty, <<>>, FileWithTopology(alias, link, ipv4),
              [d \in Universe |-> IF d = nA THEN ra ELSE IF d = nB THEN rb ELSE Silent],
              physical) :
        links \in BOOLEAN, unconnected \in BOOLEAN,
        alias \in {sEmpty, <<"x">>}, link \in {NoLink, <<"Link_", 0>>, <<"up", 0>>},
        ipv4 \in {NoAddr, 2},
        ra \in Reports(FileCdp(nA), <<>>), rb \in Reports(FileCdp(nB), <<>>),
        physical \in PhysicalChoices}

\* the scenarios of the addresses: a reports c with addresses that are not
\* IPv4 addresses, alone or next to IPv4 addresses, with and without an
\* excluded network
AddressCdp ==
    <<Cdp(nC, G1, G1, {NotIPv4Low}, {}, sIOS),
      Cdp(nC, G2, G2, {6}, {5, NotIPv4High}, sIOS),
      Cdp(nC, G2, G1, {NotIPv4Low, 5}, {2}, sIOS)>>

AddressLldp ==
    <<Lldp(G1, G1, nC, NotIPv4High, NoAddr, sIOS),
      Lldp(G2, G2, nC, NoAddr, NotIPv4Low, sIOS)>>

AddressScenarios ==
    {Scenario(FALSE, FALSE, sEmpty, excl_net, File(<<nA, nB>>, NoProxies),
              [d \in Universe |-> IF d = nA THEN ra ELSE Silent], AllInterfaces) :
        excl_net \in {<<>>, <<Net4>>},
        ra \in Reports(AddressCdp, AddressLldp)}

\* what get_neighbor_info returns when the LLDP result says total_entries = 0
ReportNoEntries(cdp, lldp) ==
    [cdp |-> cdp, lldp |-> [present |-> TRUE, total_entries |-> 0, interfaces |-> lldp]]

\* the scenarios of the LLDP count: a's LLDP result has total_entries = 0,
\* with or without a CDP table and with or without an interface in the result
NoEntriesScenarios ==
    {Scenario(FALSE, FALSE, sEmpty, <<>>, File(<<nA>>, NoProxies),
              [d \in Universe |-> IF d = nA THEN ReportNoEntries(c, l) ELSE Silent],
              AllInterfaces) :
        c \in SubSeqsUpTo(TopoCdp(nA), MaxCdp), l \in SubSeqsUpTo(TopoLldp(nA), MaxLldp)}

\* the software_version and platform strings of the OS classifier
OsStrings ==
    {sEmpty, sIOS, sXE, sXR, sNXOS,
     sIOS \o <<" ">> \o sXE,
     sIOS \o <<"-">> \o sXR,
     sXR \o <<" ">> \o sXE,
     <<"C", "i", "s", "c", "o", " ">> \o sIOS \o <<" ">> \o sNXOS,
     <<"i", "o", "s", " ", "x", "e">>}

\* the scenarios of the OS classifier: a reports the new device c with each
\* pair of a software_version and a platform
OsScenarios ==
    {Scenario(FALSE, FALSE, sEmpty, <<>>, File(<<nA>>, NoProxies),
              [d \in Universe |->
                  IF d = nA
                  THEN Report(<<[Cdp(nC, G1, G1, {1}, {2}, version) EXCEPT
                                    !.platform = platform]>>, <<>>)
                  ELSE Silent],
              AllInterfaces) :
        version \in OsStrings, platform \in OsStrings}

\* the scenarios of the repeated report: a hears b, then c, then b again on
\* one interface, by CDP and, for c, by LLDP too; the second report of b names
\* as management address the address that the first gave as interface address
RepeatCdp ==
    <<Cdp(nB, G1, G1, {1}, {2}, sIOS),
      Cdp(nC, G1, G2, {3}, {4}, sIOS),
      Cdp(nBx, G1, G1, {2}, {1}, sNXOS)>>

\* the LLDP neighbor carries both address fields, with different addresses
RepeatLldp == <<Lldp(G1, G2, nC, 5, 6, sIOS)>>

RepeatScenarios ==
    {Scenario(FALSE, unconnected, sEmpty, <<>>, File(<<nA>>, NoProxies),
              [d \in Universe |-> IF d = nA THEN Report(RepeatCdp, RepeatLldp)
                                  ELSE Silent],
              AllInterfaces) :
        unconnected \in BOOLEAN}

\* the scenarios of the chain: the file has a alone, without a proxy; a hears
\* b, b hears c and c hears d, each with an interface address, so that every
\* new device is reached through its finder
ChainCdp(d) ==
    CASE d = nA -> <<Cdp(nB, G1, G1, {1}, {2}, sIOS)>>
      [] d = nB -> <<Cdp(nC, G2, G1, {3}, {4}, sIOS)>>
      [] d = nC -> <<Cdp(nD, G2, G1, {5}, {6}, sIOS)>>
      [] OTHER -> <<>>

ChainScenarios ==
    {Scenario(FALSE, unconnected, sEmpty, <<>>, File(<<nA>>, NoProxies),
              [d \in Universe |-> Report(ChainCdp(d), <<>>)], AllInterfaces) :
        unconnected \in BOOLEAN}

\* the scenarios of the device without address: a hears c with interface
\* addresses and no management address, after b or alone
NoAddressCdp ==
    <<Cdp(nB, G1, G1, {1}, {2}, sIOS),
      Cdp(nC, G2, G2, {}, {3}, sIOS)>>

NoAddressScenarios ==
    {Scenario(FALSE, FALSE, sEmpty, <<>>, File(<<nA>>, NoProxies),
              [d \in Universe |-> IF d = nA THEN Report(cdp, <<>>) ELSE Silent],
              AllInterfaces) :
        cdp \in {NoAddressCdp, Tail(NoAddressCdp)}}

\* the scenarios of the link names: the one link of the file, of b's G1, is
\* called Link_1 or Link_0, and a hears b on interfaces that are on no link
LinkNameScenarios ==
    {Scenario(FALSE, FALSE, sEmpty, <<>>, FileWithTopology(sEmpty, <<"Link_", n>>, NoAddr),
              [d \in Universe |-> IF d = nA
                                  THEN Report(<<Cdp(nB, G2, G2, {1}, {2}, sIOS)>>, <<>>)
                                  ELSE Silent],
              AllInterfaces) :
        n \in {0, 1}}

Scenarios ==
    OsScenarios \cup NoEntriesScenarios \cup TopoScenarios \cup FilterScenarios
        \cup AttrScenarios \cup FileScenarios \cup AddressScenarios
        \cup RepeatScenarios \cup ChainScenarios \cup NoAddressScenarios
        \cup LinkNameScenarios

Init ==
    \E sc \in Scenarios :
        /\ neighbor_name = <<>>
        /\ filtered = <<>>
        /\ final_calls = NoCalls
        /\ only_links = sc.only_links
        /\ add_unconnected_interfaces = sc.add_unconnected_interfaces
        /\ exclude_interfaces = sc.exclude_interfaces
        /\ exclude_networks = sc.exclude_networks
        /\ net = sc.net
        /\ phys = sc.phys
        /\ testbed_yaml = sc.yaml
        /\ testbed = Load(sc.yaml)
        /\ proxy_set = FileProxies(sc.yaml)
        /\ visited_devices = {}
        /\ device_list = <<>>
        /\ dev_to_test = <<>>
        /\ fetched = <<>>
        /\ conn_dict = <<>>
        /\ pc = "loop"
        /\ rounds = 0

Next ==
    \/ StartRound
    \/ ExitLoop
    \/ \E d \in DOMAIN net : GetNeighborInfo(d)
    \/ ProcessNeighborData
    \/ WriteDevices
    \/ WriteConnections
    \/ ResolveIPv4
    \/ Unconfigure
    \/ CreateYaml

Spec == Init /\ [][Next]_vars

\* ----------------------------------------------- the Name Normalizer alone
\* the neighbor names: every string of at most MaxName characters of a letter,
\* a hyphen, a dot, a space and a newline
NameChars == {"c", "-", ".", " ", "\n"}

RECURSIVE Strings(_)
Strings(n) ==
    IF n = 0 THEN {<<>>}
    ELSE LET shorter == Strings(n - 1)
         IN  shorter \cup {Append(x, ch) : x \in shorter, ch \in NameChars}

\* a name arrives; nothing else of the program runs
NormalizerInit ==
    /\ neighbor_name \in Strings(MaxName)
    /\ filtered = <<>>
    /\ final_calls = NoCalls
    /\ only_links = FALSE
    /\ add_unconnected_interfaces = FALSE
    /\ exclude_interfaces = sEmpty
    /\ exclude_networks = <<>>
    /\ net = [d \in Universe |-> Silent]
    /\ phys = AllInterfaces
    /\ testbed_yaml = File(<<nA>>, NoProxies)
    /\ testbed = Load(File(<<nA>>, NoProxies))
    /\ proxy_set = FileProxies(File(<<nA>>, NoProxies))
    /\ visited_devices = {}
    /\ device_list = <<>>
    /\ dev_to_test = <<>>
    /\ fetched = <<>>
    /\ conn_dict = <<>>
    /\ pc = "loop"
    /\ rounds = 0

\* lines 293-295 and 413-415: the filter is applied to the name, and to what
\* it made of the name
FilterName ==
    /\ Len(filtered) < 2
    /\ filtered' = Append(filtered, Normalize(IF filtered = <<>> THEN neighbor_name
                                               ELSE filtered[Len(filtered)]))
    /\ UNCHANGED <<final_calls, neighbor_name, only_links, add_unconnected_interfaces,
                   exclude_interfaces,
                   exclude_networks, net, phys, testbed, testbed_yaml, proxy_set,
                   visited_devices, device_list, dev_to_test, fetched, conn_dict, pc,
                   rounds>>

NormalizerNext == FilterName

NormalizerSpec == NormalizerInit /\ [][NormalizerNext]_vars

\* ------------------------------------------------------------------ claims
\* the loop has ended and the file has not been rewritten yet: testbed_yaml
\* is still the input configuration
AfterLoop == pc \in {"final", "cleanup", "yaml"}

\* a round's link commit has just been made: conn_dict and fetched are those
\* of the round
Committed == pc \in {"loop", "final"} /\ rounds >= 1

\* C1: in links-only mode the devices of the graph at the exit of the loop
\* are the devices of the initial graph, whatever the neighbors report
C1_LinksOnlyAddsNoDevice ==
    (only_links /\ AfterLoop) => DOMAIN testbed.dev = DOMAIN testbed_yaml.devices

\* C2: in every state every interface is a member of at most one link
C2_InterfaceInOneLink ==
    \A l1, l2 \in 1..Len(testbed.links) :
        l1 # l2 => Range(testbed.links[l1].interfaces)
                     \cap Range(testbed.links[l2].interfaces) = {}

\* C3: link commit is idempotent: committing the round's ConnectionRecord a
\* second time leaves the links and the members of every link as they are
C3_LinkCommitIdempotent ==
    Committed =>
        LET again == write_connections_to_testbed(conn_dict, testbed)
        IN  ~again.err /\ again.tb.links = testbed.links

\* the position is inside the while loop of _generate
InLoop == pc \in {"loop", "fetch", "write_devices", "write_connections"}

\* how far the position is from the next test of the loop condition
PhaseRank ==
    CASE pc = "fetch" -> 4
      [] pc = "write_devices" -> 3
      [] pc = "write_connections" -> 2
      [] pc = "loop" -> 1
      [] OTHER -> 0

\* the calls of the round's pcall that have not returned
Unfetched ==
    IF pc = "fetch" THEN Cardinality(Range(dev_to_test) \ DOMAIN fetched) ELSE 0

\* a natural number that every step inside the loop makes smaller: the
\* devices of the universe not yet visited, then the phase, then the calls
\* that have not returned
Variant ==
    (Cardinality(Universe \ visited_devices) * 5 + PhaseRank)
        * (Cardinality(Universe) + 1) + Unfetched

\* the loop is not blocked: the loop condition can be tested, and a call
\* that has not returned can return
LoopCanStep ==
    CASE pc = "loop" -> ENABLED (StartRound \/ ExitLoop)
      [] pc = "fetch" /\ Range(dev_to_test) # DOMAIN fetched ->
            ENABLED (\E d \in DOMAIN net : GetNeighborInfo(d))
      [] OTHER -> TRUE

CdpPair(e) == [dest_host |-> CdpDestHost(e), dest_port |-> e.port_id]

\* the pair of entry e of device d is in the ConnectionRecord cd
Recorded(cd, d, e) ==
    \E i \in 1..Len(cd) :
        /\ cd[i].name = d
        /\ \E j \in 1..Len(cd[i].conns) :
              /\ cd[i].conns[j].name = e.local_interface
              /\ CdpPair(e) \in Range(cd[i].conns[j].entries)

\* one of the entry's interface or management addresses lies in one of the
\* excluded networks
AddrExcluded(e) ==
    \E ip \in e.interface_addresses \cup e.management_addresses :
        \E n \in Range(exclude_networks) : InNet(ip, n)

\* the entry passes the links-only test and the interface filter
PassesOtherFilters(e) ==
    /\ ~(only_links /\ CdpDestHost(e) \notin DOMAIN testbed.dev)
    /\ ~InterfaceExcluded(e.local_interface, e.port_id, exclude_interfaces)

\* the collected neighbor data without the CDP entries that have an address
\* in an excluded network
WithoutAddrExcluded(data) ==
    [d \in DOMAIN data |->
        [data[d] EXCEPT !.cdp = SelectSeq(@, LAMBDA e : ~AddrExcluded(e))]]

\* the merge step of a round
MergeStep == pc = "fetch" /\ pc' # "fetch"

\* every address of every CDP entry of the data is an IPv4 address
CdpAllIPv4(data) ==
    \A d \in DOMAIN data : \A k \in 1..Len(data[d].cdp) :
        \A ip \in data[d].cdp[k].interface_addresses
                        \cup data[d].cdp[k].management_addresses : IsIPv4(ip)

ExcludedNames == Range(Split(exclude_interfaces))

\* the collected neighbor data without the CDP and LLDP entries whose local
\* interface or remote port is one of the excluded interfaces
WithoutExcludedInterfaces(data) ==
    [d \in DOMAIN data |->
        [data[d] EXCEPT
            !.cdp = SelectSeq(@, LAMBDA e : /\ e.local_interface \notin ExcludedNames
                                            /\ e.port_id \notin ExcludedNames),
            !.lldp.interfaces =
                SelectSeq(@, LAMBDA n : /\ n.interface \notin ExcludedNames
                                        /\ n.dest_port \notin ExcludedNames)]]

KeptAtMerge(e) ==
    /\ ~(only_links /\ CdpDestHost(e) \notin DOMAIN testbed_yaml.devices)
    /\ ~InterfaceExcluded(e.local_interface, e.port_id, exclude_interfaces)
    /\ ~AddrExcluded(e)

\* some link of the graph has both interfaces among its members
SameLink(ref1, ref2) ==
    \E l \in TestbedLinks(testbed) :
        {ref1, ref2} \subseteq Range(testbed.links[l].interfaces)

\* C7: after the graph commit of a round, for every CDP entry of the round
\* that a visited device A reported and that passed every filter, with local
\* interface L, remote port P and neighbor name N: the graph has a device
\* normalize(N) that owns P, A owns L, and A's L and that device's P are
\* members of the same link of the graph
C7_KeptCdpEntryLinked ==
    Committed =>
        \A d \in DOMAIN fetched : \A k \in 1..Len(fetched[d].cdp) :
            LET e == fetched[d].cdp[k]
                N == IF e.system_name # <<>> THEN e.system_name ELSE e.device_id
            IN  KeptAtMerge(e) =>
                  /\ HasInterface(testbed, <<Normalize(N), e.port_id>>)
                  /\ HasInterface(testbed, <<d, e.local_interface>>)
                  /\ SameLink(<<d, e.local_interface>>, <<Normalize(N), e.port_id>>)

\* the devices that the round has instantiated: they are in the graph and were
\* not when the round started
NewDevices == Range(testbed.order) \ visited_devices

\* C8: with no exclusion configured, once a round has instantiated its new
\* devices every new device has, for every management address M accumulated
\* in its DiscoveredDeviceRecord, a connection whose ip is M, whatever the
\* number of known proxies and of addresses
C8_ConnectionPerAddress ==
    (pc = "write_connections" /\ exclude_interfaces = <<>> /\ exclude_networks = <<>>) =>
        \A d \in NewDevices :
            \A M \in device_list[IndexOfName(device_list, d)].ip :
                \E k \in 1..Len(testbed.dev[d].connections) :
                    testbed.dev[d].connections[k].ip = M

\* C9: the output merge is non-destructive: when create_yaml_dict has run,
\* every device entry and every topology interface entry of the input
\* configuration has the contents it had
C9_OutputMergeNonDestructive ==
    [][(pc = "yaml" /\ pc' = "done") =>
        /\ \A d \in DOMAIN testbed_yaml.devices :
              /\ d \in DOMAIN testbed_yaml'.devices
              /\ testbed_yaml'.devices[d] = testbed_yaml.devices[d]
        /\ testbed_yaml.has_topology =>
              \A d \in DOMAIN testbed_yaml.topology :
                  \A i \in DOMAIN testbed_yaml.topology[d] :
                      /\ d \in DOMAIN testbed_yaml'.topology
                      /\ i \in DOMAIN testbed_yaml'.topology[d]
                      /\ testbed_yaml'.topology[d][i] = testbed_yaml.topology[d][i]]_vars

\* pcall has returned every result of the round and the merge has not begun
MergeReady == pc = "fetch" /\ Range(dev_to_test) = DOMAIN fetched

\* the orders in which the devices of the frontier can be merged
FrontierOrders ==
    {p \in [1..Len(dev_to_test) -> Range(dev_to_test)] :
        \A i, j \in 1..Len(dev_to_test) : p[i] = p[j] => i = j}

\* the merge of the round's results with the devices taken in this order
MergeInOrder(order) ==
    MergeResults(device_list, testbed, order, fetched, only_links, exclude_interfaces,
                 exclude_networks)

\* the accumulator and the ConnectionRecord as maps: the record of a name
RecordOf(dl, name) == dl[IndexOfName(dl, name)]

ConnsOf(conn, name) == conn[IndexOfName(conn, name)].conns

\* the two merges both raise or both complete, and when they complete they
\* give the same keys, and for every key the same ports and addresses, and the
\* same ConnectionRecord for every device
SamePortsAddressesConnections(r1, r2) ==
    /\ r1.err = r2.err
    /\ ~r1.err =>
          /\ Names(r1.dl) = Names(r2.dl)
          /\ \A n \in Names(r1.dl) :
                /\ RecordOf(r1.dl, n).ports = RecordOf(r2.dl, n).ports
                /\ RecordOf(r1.dl, n).ip = RecordOf(r2.dl, n).ip
          /\ Names(r1.conn) = Names(r2.conn)
          /\ \A d \in Names(r1.conn) : ConnsOf(r1.conn, d) = ConnsOf(r2.conn, d)

\* ... and the same OS and finder for every key
SameOsFinder(r1, r2) ==
    \A n \in Names(r1.dl) \cap Names(r2.dl) :
        /\ RecordOf(r1.dl, n).os = RecordOf(r2.dl, n).os
        /\ RecordOf(r1.dl, n).finder = RecordOf(r2.dl, n).finder

\* C10 as claimed: whatever the order in which the devices of the frontier are
\* merged, the DiscoveredDeviceRecord accumulator (ports, addresses, OS,
\* finder) and the ConnectionRecord map are the same
C10_MergeCommutative ==
    MergeReady =>
        \A p \in FrontierOrders :
            /\ SamePortsAddressesConnections(MergeInOrder(dev_to_test), MergeInOrder(p))
            /\ SameOsFinder(MergeInOrder(dev_to_test), MergeInOrder(p))

\* C10 amended: whatever the order in which the devices of the frontier are
\* merged, the merge raises in every order or in none, and when it completes
\* the keys, ports and addresses of the DiscoveredDeviceRecord
\* accumulator and the ConnectionRecord map are the same; the finder of a
\* record is the first device merged that reported it and its OS the first OS
\* reported that is not None
C10_MergeCommutativeButOsFinder ==
    MergeReady =>
        \A p \in FrontierOrders :
            LET r == MergeInOrder(p)
            IN  /\ SamePortsAddressesConnections(MergeInOrder(dev_to_test), r)
                /\ \A n \in IF r.err THEN {} ELSE Names(r.dl) \ Names(device_list) :
                      \E k \in 1..Len(p) :
                          /\ RecordOf(r.dl, n).finder[1] = p[k]
                          /\ n \in Names(MergeInOrder(SubSeq(p, k, k)).dl)
                          /\ \A j \in 1..(k - 1) :
                                n \notin Names(MergeInOrder(SubSeq(p, j, j)).dl)
                          /\ RecordOf(r.dl, n).os # "None" =>
                                \E m \in k..Len(p) :
                                    LET one == MergeInOrder(SubSeq(p, m, m)).dl
                                    IN  /\ n \in Names(one)
                                        /\ RecordOf(one, n).os = RecordOf(r.dl, n).os

\* two devices of the frontier report the same new device on different ports
\* with different addresses, and the two orders give it a different OS and a
\* different finder
C10_Witness ==
    /\ MergeReady
    /\ \E p \in FrontierOrders :
          LET r1 == MergeInOrder(dev_to_test)
              r2 == MergeInOrder(p)
          IN  \E n \in Names(r1.dl) \cap Names(r2.dl) :
                /\ RecordOf(r1.dl, n).os # RecordOf(r2.dl, n).os
                /\ RecordOf(r1.dl, n).finder # RecordOf(r2.dl, n).finder
                /\ Cardinality(RecordOf(r1.dl, n).ports) >= 2
                /\ Cardinality(RecordOf(r1.dl, n).ip) >= 2

\* the pair of LLDP neighbor n of device d is in the ConnectionRecord cd
RecordedLldp(cd, d, n) ==
    \E i \in 1..Len(cd) :
        /\ cd[i].name = d
        /\ \E j \in 1..Len(cd[i].conns) :
              /\ cd[i].conns[j].name = n.interface
              /\ [dest_host |-> Normalize(n.dest_host), dest_port |-> n.dest_port]
                    \in Range(cd[i].conns[j].entries)

\* the LLDP neighbor passes the links-only test and the interface filter
LldpPassesOtherFilters(n) ==
    /\ ~(only_links /\ n.dest_host \notin DOMAIN testbed.dev)
    /\ ~InterfaceExcluded(n.interface, n.dest_port, exclude_interfaces)

\* the addresses of a CDP entry that are IPv4 addresses
IPv4Of(e) == {ip \in e.interface_addresses \cup e.management_addresses : IsIPv4(ip)}

\* C11: with a non-empty list of excluded networks, a CDP or LLDP entry that
\* carries an address that is not an IPv4 address, passes the other filters
\* and has no IPv4 address in an excluded network is kept by the merge: the
\* merge completes, the entry's pair is in the ConnectionRecord and its host in
\* the DiscoveredDeviceRecord
C11_NonIPv4NeverExcludes ==
    [][(MergeStep /\ exclude_networks # <<>>) =>
        \A d \in DOMAIN fetched :
            /\ \A k \in 1..Len(fetched[d].cdp) :
                  LET e == fetched[d].cdp[k]
                  IN  (/\ PassesOtherFilters(e)
                       /\ IPv4Of(e) # e.interface_addresses \cup e.management_addresses
                       /\ \A ip \in IPv4Of(e) : \A n \in Range(exclude_networks) :
                             ~InNet(ip, n)) =>
                        /\ pc' = "write_devices"
                        /\ Recorded(conn_dict', d, e)
                        /\ CdpDestHost(e) \in Names(device_list')
            /\ HasLldp(fetched[d].lldp) =>
                  \A k \in 1..Len(fetched[d].lldp.interfaces) :
                      LET n == fetched[d].lldp.interfaces[k]
                      IN  (/\ LldpPassesOtherFilters(n)
                           /\ LldpAddress(n) # NoAddr
                           /\ ~IsIPv4(LldpAddress(n))) =>
                            /\ pc' = "write_devices"
                            /\ RecordedLldp(conn_dict', d, n)
                            /\ Normalize(n.dest_host) \in Names(device_list')]_vars

\* the fetch of the device gave neither CDP nor LLDP data
NoData(data) == data.cdp = <<>> /\ ~data.lldp.present

\* the frontier devices whose fetch gave data
Talking(devs, data) == SelectSeq(devs, LAMBDA d : ~NoData(data[d]))

\* the records of the ConnectionRecord for the devices of devs, in order
RecordsOf(cd, devs) == SelectSeq(cd, LAMBDA r : r.name \in devs)

\* C12: a frontier device whose fetch gave neither CDP nor LLDP data does not
\* end the round and changes nothing: its connection record is empty, its
\* interfaces are as before, and the DiscoveredDeviceRecord, the graph, the
\* records of the other frontier devices and the way the merge ends are those
\* of the merge of the other devices' data alone
C12_SilentDeviceHarmless ==
    [][MergeStep =>
        LET talking == Talking(dev_to_test, fetched)
            silent == Range(dev_to_test) \ Range(talking)
            r == MergeResults(device_list, testbed, talking, fetched, only_links,
                              exclude_interfaces, exclude_networks)
        IN  /\ device_list' = r.dl
            /\ testbed' = r.tb
            /\ (pc' = "error") = r.err
            /\ (pc' = "write_devices") = ~r.err
            /\ RecordsOf(conn_dict', Range(talking)) = r.conn
            /\ \A d \in silent : testbed'.dev[d].interfaces = testbed.dev[d].interfaces
            /\ pc' = "write_devices" =>
                  /\ Names(conn_dict') = Range(dev_to_test)
                  /\ \A i \in 1..Len(conn_dict') :
                        conn_dict'[i].name \in silent => conn_dict'[i].conns = <<>>]_vars

\* a round has merged the data of a silent frontier device and of a frontier
\* device that reported a neighbor, and the neighbor is recorded
C12_Witness ==
    /\ pc = "write_devices"
    /\ \E d1, d2 \in Range(dev_to_test) :
          /\ NoData(fetched[d1])
          /\ ~NoData(fetched[d2])
          /\ \E i, j \in 1..Len(conn_dict) :
                /\ conn_dict[i].name = d1 /\ conn_dict[i].conns = <<>>
                /\ conn_dict[j].name = d2 /\ conn_dict[j].conns # <<>>
    /\ Names(device_list) \ Range(testbed.order) # {}

\* the data with every LLDP result of total_entries = 0 taken away
WithoutEmptyLldp(data) ==
    [d \in DOMAIN data |->
        IF data[d].lldp.present /\ data[d].lldp.total_entries = 0
        THEN Report(data[d].cdp, <<>>) ELSE data[d]]

\* C13: an LLDP result with total_entries = 0 is skipped without error: the
\* merge gives what it gives for the same data without the LLDP result, so
\* nothing comes from LLDP and the CDP data is handled as without it
C13_LldpNoEntriesSkipped ==
    [][MergeStep =>
        LET r == MergeResults(device_list, testbed, dev_to_test, WithoutEmptyLldp(fetched),
                              only_links, exclude_interfaces, exclude_networks)
        IN  /\ device_list' = r.dl
            /\ conn_dict' = r.conn
            /\ testbed' = r.tb
            /\ (pc' = "error") = r.err
            /\ \A d \in DOMAIN fetched :
                  (fetched[d].lldp.present /\ fetched[d].lldp.total_entries = 0) =>
                     \A k \in 1..Len(fetched[d].lldp.interfaces) :
                           LET n == fetched[d].lldp.interfaces[k]
                           IN  (\A j \in 1..Len(fetched[d].cdp) :
                                   CdpPair(fetched[d].cdp[j]) #
                                      [dest_host |-> Normalize(n.dest_host),
                                       dest_port |-> n.dest_port]) =>
                                 ~RecordedLldp(conn_dict', d, n)]_vars

\* a merge has handled a device whose LLDP result has total_entries = 0 and
\* names a neighbor, and whose CDP table names another neighbor: the CDP
\* neighbor is recorded and the LLDP neighbor is not
C13_Witness ==
    /\ pc = "write_devices"
    /\ \E d \in DOMAIN fetched :
          /\ fetched[d].lldp.present
          /\ fetched[d].lldp.total_entries = 0
          /\ fetched[d].cdp # <<>>
          /\ Recorded(conn_dict, d, fetched[d].cdp[1])
          /\ \E k \in 1..Len(fetched[d].lldp.interfaces) :
                LET n == fetched[d].lldp.interfaces[k]
                IN  /\ Normalize(n.dest_host) \notin Names(device_list)
                    /\ ~RecordedLldp(conn_dict, d, n)

\* one of the two strings contains the word
EitherHas(word, system_string, platform_name) ==
    IsSubstring(word, system_string) \/ IsSubstring(word, platform_name)

\* the OS the precedence gives: IOS with XE, IOS with XR and no XE, IOS alone,
\* NX-OS without IOS, nothing
OsByPrecedence(system_string, platform_name) ==
    LET has(word) == EitherHas(word, system_string, platform_name)
    IN  CASE has(sIOS) /\ has(sXE) -> "iosxe"
          [] has(sIOS) /\ has(sXR) /\ ~has(sXE) -> "iosxr"
          [] has(sIOS) /\ ~has(sXR) /\ ~has(sXE) -> "ios"
          [] ~has(sIOS) /\ has(sNXOS) -> "nxos"
          [] OTHER -> "None"

\* C14: the OS that the merge records for a new device is the one the
\* precedence gives for the software_version and platform of the CDP entry
\* that introduces it: iosxe for IOS with XE (also with XR), iosxr for IOS
\* with XR and no XE, ios for IOS alone, nxos for NX-OS without IOS, else none
C14_OsPrecedence ==
    [][(MergeStep /\ device_list = <<>> /\ Len(dev_to_test) = 1
            /\ pc' = "write_devices") =>
        \A d \in DOMAIN fetched :
            fetched[d].cdp # <<>> =>
               LET e == fetched[d].cdp[1]
               IN  Recorded(conn_dict', d, e) =>
                     \E i \in 1..Len(device_list') :
                         /\ device_list'[i].name = CdpDestHost(e)
                         /\ device_list'[i].os =
                               OsByPrecedence(e.software_version, e.platform)]_vars

\* the merge has recorded a new device as iosxe from an entry whose strings
\* have IOS in one, XE in the other and XR as well
C14_Witness ==
    /\ pc = "write_devices"
    /\ \E d \in DOMAIN fetched :
          /\ fetched[d].cdp # <<>>
          /\ LET e == fetched[d].cdp[1]
             IN  /\ IsSubstring(sXR, e.software_version)
                 /\ IsSubstring(sXE, e.software_version)
                 /\ ~IsSubstring(sIOS, e.software_version)
                 /\ IsSubstring(sIOS, e.platform)
                 /\ \E i \in 1..Len(device_list) :
                       /\ device_list[i].name = CdpDestHost(e)
                       /\ device_list[i].os = "iosxe"

\* C15: the filter is idempotent: applied to what it made of a name, the empty
\* name included, it gives that again
C15_NormalizeIdempotent == Len(filtered) = 2 => filtered[2] = filtered[1]

\* the filter has been applied twice to a name it shortens at both ends
C15_Witness ==
    /\ Len(filtered) = 2
    /\ Len(neighbor_name) = 3
    /\ Len(filtered[1]) = 1

\* C16: a links-only run on a file with devices makes one round: the loop is
\* entered, the link commit of the first round leads to the final pass, and
\* the final pass is reached with one round made, whatever devices are
\* unvisited
C16_LinksOnlyOneRound ==
    /\ [](only_links =>
            /\ rounds <= 1
            /\ (pc = "loop" => rounds = 0)
            /\ (pc = "loop" /\ testbed.order # <<>>) => LoopGuard(testbed, visited_devices)
            /\ (pc \in {"final", "cleanup", "yaml", "done"} /\ testbed.order # <<>>) =>
                  rounds = 1)
    /\ [][(only_links /\ pc = "write_connections" /\ pc' # "error") =>
             (pc' = "final" /\ rounds' = 1)]_vars

\* a links-only run is in its final pass after one round, and a device of the
\* graph has not been visited
C16_Witness ==
    /\ only_links
    /\ pc = "final"
    /\ rounds = 1
    /\ Range(testbed.order) \ visited_devices # {}

\* the devices of the graph that have not been visited
Frontier == Range(testbed.order) \ visited_devices

\* C17: whenever the loop condition is tested the visited devices are devices
\* of the graph, so the condition on the two counts holds exactly when a
\* device of the graph has not been visited; and when a run without
\* links-only has left the loop every device of the graph has been visited
C17_GuardIsFrontier ==
    /\ (pc = "loop" =>
          /\ visited_devices \subseteq Range(testbed.order)
          /\ LoopGuard(testbed, visited_devices) <=> (Frontier # {}))
    /\ ((~only_links /\ pc \in {"final", "cleanup", "yaml", "done"}) => Frontier = {})

\* a run without links-only has left the loop after two rounds with the three
\* devices of its graph visited
C17_Witness ==
    /\ ~only_links
    /\ pc = "final"
    /\ rounds = 2
    /\ Len(testbed.order) = 3
    /\ Frontier = {}

\* C18: the interface filter drops an entry only when its local interface or
\* its remote port is one of the names the exclude-interfaces argument lists:
\* a CDP or LLDP entry with neither name among the listed names, which passes
\* the links-only test and the address filter, is recorded by the merge
C18_OnlyListedInterfacesDropped ==
    [][(MergeStep /\ pc' = "write_devices") =>
        \A d \in DOMAIN fetched :
            /\ \A k \in 1..Len(fetched[d].cdp) :
                  LET e == fetched[d].cdp[k]
                  IN  (/\ e.local_interface \notin ExcludedNames
                       /\ e.port_id \notin ExcludedNames
                       /\ ~(only_links /\ CdpDestHost(e) \notin DOMAIN testbed.dev)
                       /\ ~AddrExcluded(e)) =>
                        Recorded(conn_dict', d, e)
            /\ HasLldp(fetched[d].lldp) =>
                  \A k \in 1..Len(fetched[d].lldp.interfaces) :
                      LET n == fetched[d].lldp.interfaces[k]
                      IN  (/\ n.interface \notin ExcludedNames
                           /\ n.dest_port \notin ExcludedNames
                           /\ ~(only_links /\ n.dest_host \notin DOMAIN testbed.dev)
                           /\ \A net_ \in Range(exclude_networks) :
                                 ~InNet(LldpAddress(n), net_)) =>
                            RecordedLldp(conn_dict', d, n)]_vars

\* the sequence has no element twice
Distinct(seq) == \A i, j \in 1..Len(seq) : seq[i] = seq[j] => i = j

\* C19: no device is fetched twice: the visited set only grows; a round's
\* frontier has no device twice and no device visited before the round, and
\* all of it is marked visited when the round starts; the frontier changes
\* only when a round starts; and a fetch is made for a device of the frontier
\* of the round that has not been fetched in the round
C19_NoDeviceFetchedTwice ==
    [][/\ visited_devices \subseteq visited_devices'
       /\ (pc = "loop" /\ pc' = "fetch") =>
             /\ Range(dev_to_test') \cap visited_devices = {}
             /\ visited_devices' = visited_devices \cup Range(dev_to_test')
             /\ Distinct(dev_to_test')
             /\ fetched' = <<>>
       /\ ~(pc = "loop" /\ pc' = "fetch") =>
             /\ dev_to_test' = dev_to_test
             /\ visited_devices' = visited_devices
       /\ fetched' # fetched /\ pc = "fetch" =>
             \E d \in Range(dev_to_test) \ DOMAIN fetched :
                 /\ DOMAIN fetched' = DOMAIN fetched \cup {d}
                 /\ d \in visited_devices]_vars

\* the second round has fetched its whole frontier, and a device visited in
\* the first round is not part of it
C19_Witness ==
    /\ pc = "fetch"
    /\ rounds = 1
    /\ dev_to_test # <<>>
    /\ DOMAIN fetched = Range(dev_to_test)
    /\ visited_devices \ Range(dev_to_test) # {}

\* C20: the merge of a round starts only when the fetch of every frontier
\* device has returned; a step of the fetch phase changes neither the graph
\* nor the visited set (nor the records); and a frontier is computed only at
\* the test of the loop condition, which after the first round is reached
\* only from the link commit, which follows the device commit, which follows
\* the merge: then every discovered device is a device of the graph
C20_MergeAfterAllFetches ==
    /\ [](pc = "loop" => Names(device_list) \subseteq Range(testbed.order))
    /\ [][/\ MergeStep => DOMAIN fetched = Range(dev_to_test)
          /\ (pc = "fetch" /\ pc' = "fetch") =>
                /\ testbed' = testbed
                /\ visited_devices' = visited_devices
                /\ device_list' = device_list
                /\ conn_dict' = conn_dict
          /\ dev_to_test' # dev_to_test => (pc = "loop" /\ pc' = "fetch")
          /\ (pc' = "fetch" /\ pc # "fetch") => pc = "loop"
          /\ (pc' = "loop" /\ pc # "loop") => pc = "write_connections"
          /\ (pc' = "write_connections" /\ pc # "write_connections") =>
                pc = "write_devices"
          /\ (pc' = "write_devices" /\ pc # "write_devices") => pc = "fetch"]_vars

\* the second round has merged the results of a frontier of two devices that
\* the first round discovered and committed
C20_Witness ==
    /\ pc = "write_devices"
    /\ rounds = 1
    /\ Len(dev_to_test) = 2
    /\ DOMAIN fetched = Range(dev_to_test)
    /\ Range(dev_to_test) \subseteq Range(testbed.order)
    /\ Range(dev_to_test) \cap DOMAIN testbed_yaml.devices = {}

\* the devices for which the IPv4 resolution has been called, in order
ResolvedDevices == [k \in 1..Len(final_calls.ipv4) |-> final_calls.ipv4[k].name]

C22_LinkCommitFindsDestination ==
    pc = "write_connections" =>
        \A i \in 1..Len(conn_dict) : \A j \in 1..Len(conn_dict[i].conns) :
            \A k \in 1..Len(conn_dict[i].conns[j].entries) :
                LET e == conn_dict[i].conns[j].entries[k]
                IN  /\ e.dest_host \in DOMAIN testbed.dev
                    /\ e.dest_port \in DOMAIN testbed.dev[e.dest_host].interfaces

\* the classifications that the entries of one device's data give for the
\* neighbor called name, in the order of the merge: the CDP entries that are
\* kept, then the LLDP neighbors that are kept
OsOfCdp(name, d) ==
    LET kept == SelectSeq(fetched[d].cdp,
                          LAMBDA e : /\ CdpDestHost(e) = name
                                     /\ CdpKept(e, DOMAIN testbed.dev, only_links,
                                                exclude_interfaces, exclude_networks))
    IN  [k \in 1..Len(kept) |-> get_os(kept[k].software_version, kept[k].platform)]

OsOfLldp(name, d) ==
    LET kept == SelectSeq(IF HasLldp(fetched[d].lldp) THEN fetched[d].lldp.interfaces
                          ELSE <<>>,
                          LAMBDA n : /\ Normalize(n.dest_host) = name
                                     /\ LldpKept(n, DOMAIN testbed.dev, only_links,
                                                 exclude_interfaces, exclude_networks))
    IN  [k \in 1..Len(kept) |-> get_os(kept[k].system_description, <<>>)]

RECURSIVE Classifications(_, _)
Classifications(name, k) ==
    IF k > Len(dev_to_test) THEN <<>>
    ELSE OsOfCdp(name, dev_to_test[k]) \o OsOfLldp(name, dev_to_test[k])
            \o Classifications(name, k + 1)

\* the first classification that is not None, None when there is none
FirstOs(seq) ==
    LET known == SelectSeq(seq, LAMBDA os : os # "None")
    IN  IF known = <<>> THEN "None" ELSE known[1]

\* C23: the records of the DiscoveredDeviceRecord keep their places and names,
\* and an OS that is not None never changes, in any step of any round; a
\* merge that completes gives a record without OS (new, or None so far) the
\* first classification, in the order of the merge, that is not None
C23_OsFirstNonNullWins ==
    [][/\ Len(device_list') >= Len(device_list)
       /\ \A i \in 1..Len(device_list) :
             /\ device_list'[i].name = device_list[i].name
             /\ device_list[i].os # "None" => device_list'[i].os = device_list[i].os
       /\ (MergeStep /\ pc' = "write_devices") =>
             \A i \in 1..Len(device_list') :
                 (i > Len(device_list) \/ device_list[i].os = "None") =>
                    device_list'[i].os =
                        FirstOs(Classifications(device_list'[i].name, 1))]_vars

\* a record without OS after the first round has the OS of the second round's
\* first classification, and a later round's merge has met another
\* classification for a record that has its OS
C23_Witness ==
    /\ pc = "write_devices"
    /\ rounds >= 1
    /\ \E i \in 1..Len(device_list) :
          LET cls == Classifications(device_list[i].name, 1)
          IN  /\ device_list[i].os # "None"
              /\ \E k \in 1..Len(cls) : cls[k] \notin {"None", device_list[i].os}

\* the pairs that the kept entries of device d give for a local interface, in
\* the order of the calls of add_to_connection_dict: CDP, then LLDP
PairsOf(d, interface) ==
    LET cdp == SelectSeq(fetched[d].cdp,
                         LAMBDA e : /\ e.local_interface = interface
                                    /\ CdpKept(e, DOMAIN testbed.dev, only_links,
                                               exclude_interfaces, exclude_networks))
        lldp == SelectSeq(IF HasLldp(fetched[d].lldp) THEN fetched[d].lldp.interfaces
                          ELSE <<>>,
                          LAMBDA n : /\ n.interface = interface
                                     /\ LldpKept(n, DOMAIN testbed.dev, only_links,
                                                 exclude_interfaces, exclude_networks))
    IN  [k \in 1..Len(cdp) |-> CdpPair(cdp[k])]
           \o [k \in 1..Len(lldp) |-> [dest_host |-> Normalize(lldp[k].dest_host),
                                       dest_port |-> lldp[k].dest_port]]

\* the sequence without the later occurrences of its elements
RECURSIVE FirstOccurrences(_, _)
FirstOccurrences(seq, k) ==
    IF k > Len(seq) THEN <<>>
    ELSE IF \E j \in 1..(k - 1) : seq[j] = seq[k] THEN FirstOccurrences(seq, k + 1)
    ELSE <<seq[k]>> \o FirstOccurrences(seq, k + 1)

\* C24: in the ConnectionRecord of a completed merge the list of a local
\* interface has no pair twice, and its pairs stand in the order in which the
\* entries first gave them: a later entry never moves or repeats an earlier
\* one
C24_ConnectionPairsUnique ==
    [][(MergeStep /\ pc' = "write_devices") =>
        \A i \in 1..Len(conn_dict') : \A j \in 1..Len(conn_dict'[i].conns) :
            LET c == conn_dict'[i].conns[j]
            IN  /\ Distinct(c.entries)
                /\ c.entries = FirstOccurrences(PairsOf(conn_dict'[i].name, c.name), 1)]_vars

\* a merge has met the same pair twice for one local interface, between two
\* other pairs or after another, and the list has it once
C24_Witness ==
    /\ pc = "write_devices"
    /\ \E i \in 1..Len(conn_dict) : \E j \in 1..Len(conn_dict[i].conns) :
          LET c == conn_dict[i].conns[j]
              all == PairsOf(conn_dict[i].name, c.name)
          IN  /\ Len(c.entries) >= 2
              /\ Len(all) > Len(c.entries)
              /\ \E k \in 2..Len(all) : all[k] = c.entries[1]

\* C25: in every record of device_list the interface addresses that the finder
\* gave and the management addresses of the record have no address in common
C25_FinderAddressesNotManagement ==
    \A i \in 1..Len(device_list) : device_list[i].finder[2] \cap device_list[i].ip = {}

\* C26: a completed merge has recorded, for every LLDP neighbor that passes
\* the other filters and whose management_address_v4 field is present and in
\* no excluded network, the address of that field as a management address of
\* the neighbor's record: the generic field is not taken in its place
C26_LldpPrefersIPv4Field ==
    [][(MergeStep /\ pc' = "write_devices") =>
        \A d \in DOMAIN fetched :
            HasLldp(fetched[d].lldp) =>
                \A k \in 1..Len(fetched[d].lldp.interfaces) :
                    LET n == fetched[d].lldp.interfaces[k]
                    IN  (/\ LldpPassesOtherFilters(n)
                         /\ n.management_address_v4 # NoAddr
                         /\ ~LldpStop(n.management_address_v4, exclude_networks)) =>
                            /\ Normalize(n.dest_host) \in Names(device_list')
                            /\ n.management_address_v4
                                  \in RecordOf(device_list', Normalize(n.dest_host)).ip]_vars

\* the connection specs of a device of the graph, every proxy with its hops
ConnectionSpecs(tb, d) ==
    [k \in 1..Len(tb.dev[d].connections) |-> YamlConnection(tb, tb.dev[d].connections[k])]

\* C27: the step that instantiates the new devices of a round leaves every
\* connection spec of every device that was in the graph as it was, the hops
\* and commands of its proxy chain included
C27_InstantiationKeepsConnections ==
    [][pc = "write_devices" =>
        \A d \in DOMAIN testbed.dev : ConnectionSpecs(testbed', d) = ConnectionSpecs(testbed, d)]_vars

\* C28: once a round has instantiated its new devices, every connection of
\* every new device, the finder_proxy connection included, has as ip an
\* address of the device's own DiscoveredDeviceRecord
C28_ConnectionIpIsOwnAddress ==
    pc = "write_connections" =>
        \A d \in NewDevices :
            \A k \in 1..Len(testbed.dev[d].connections) :
                testbed.dev[d].connections[k].ip \in RecordOf(device_list, d).ip

\* C29: in every state the links of the graph, those of the input graph and
\* those that the link commits have created, have names that differ from one
\* another
C29_LinkNamesDiffer ==
    \A l1, l2 \in TestbedLinks(testbed) :
        testbed.links[l1].name = testbed.links[l2].name => l1 = l2
====
